---- MODULE Spec2Model ----
(***************************************************************************)
(* PLCForge: the password recovery engine (plcforge/recovery/engine.py).   *)
(* One RecoveryEngine object, one thread running recover() and a second    *)
(* thread that may call cancel() at any moment.  Passwords and character   *)
(* sets are strings; recover()'s position is the variable pc.              *)
(*                                                                         *)
(* The audit trail (plcforge/security/audit_log.py), the front ends that   *)
(* write to it (plcforge/main.py, plcforge/gui/main_window.py) and the     *)
(* device factory (plcforge/pal/unified_api.py) follow, each with its own  *)
(* specification over its own variables: Spec, AuditSpec, FrontSpec,       *)
(* FactorySpec.                                                            *)
(***************************************************************************)
EXTENDS Integers, Sequences, FiniteSets, TLC

(***************************************************************************)
(* Bounds of the model.                                                    *)
(***************************************************************************)
\* longest config.methods list drawn
MaxMethods == 2
\* longest custom wordlist / wordlist file drawn
MaxWords == 2
\* largest min_length / max_length drawn
MaxLen == 2
\* largest config.max_attempts drawn
MaxAttempts == 6
\* log() calls in one behaviour of the audit trail
MaxLogCalls == 3
\* last calendar day (days are numbered from 0) the clock reaches
MaxDay == 1
\* AuditLogger objects constructed over the log directory, one after the other
MaxLoggers == 2
\* requests made through the front ends in one behaviour
MaxRequests == 2
\* entries of a project archive
MaxEntries == 2
\* windows of one binary companion of the archive
MaxWindows == 2
\* characters of a candidate password whose progress is reported
MaxCandidate == 5
\* rounds of the monitor loop over its tags
MaxRounds == 3
\* padding bytes before and after the block of a binary companion
MaxPad == 4
\* tags given to one read_tags or write_tags call
MaxTags == 3
\* calls of get_logger() in one process
MaxGetCalls == 3

(***************************************************************************)
(* Enumerations and constants of the program.                              *)
(***************************************************************************)
None == "<None>"

FILE_PARSE == "file_parse"
DICTIONARY == "dictionary"
BRUTEFORCE == "bruteforce"
VULNERABILITY == "vulnerability"
RecoveryMethod == {FILE_PARSE, DICTIONARY, BRUTEFORCE, VULNERABILITY}

PENDING == "pending"
RUNNING == "running"
SUCCESS == "success"
FAILED == "failed"
CANCELLED == "cancelled"
RecoveryStatus == {PENDING, RUNNING, SUCCESS, FAILED, CANCELLED}

MsgNotAuthorized == "Authorization not confirmed. User must explicitly confirm they are authorized."
MsgAllExhausted == "All recovery methods exhausted without success"
MsgNeedsFile == "File parsing requires backup file path"
MsgNoParser == "No parser available for vendor"
MsgHashOnly == "Got password hash but could not crack it"
MsgNoInfo == "No password information found in file"
MsgFileParseError == "File parse error"
MsgWordlistError == "Could not load wordlist"
MsgDictExhausted == "Dictionary exhausted without match"
MsgMaxAttempts == "Max attempts reached"
MsgBfExhausted == "Bruteforce exhausted without match"
MsgNoExploits == "No known vulnerabilities"
MsgNoExploitWorked == "No vulnerabilities successfully exploited"
MsgCallbackError == "progress callback raised"

\* progress is reported every 100th dictionary word and every 1000th brute-force candidate
DictProgressEvery == 100
BfProgressEvery == 1000

\* RecoveryResult(...) with the dataclass defaults spelled out by the caller.
\* duration names the interval the code stores: "zero" (the default 0.0),
\* "strategy" (time.time() - start_time of one strategy) or "call"
\* (datetime.now() - self._start_time).
\* details names the dict the code stores: "empty" (the default {}), "parse" (the dict
\* parser.extract_password returned: hash, algorithm, salt, ...) or "exploit"
\* ({'exploit': class name}).
RecoveryResult(st, pw, m, att, dur, msg, det) ==
    [status |-> st, password |-> pw, method_used |-> m, attempts |-> att,
     duration |-> dur, error_message |-> msg, details |-> det]

\* RecoveryResult(status=st, error_message=msg)
ResultOf(st, msg) == RecoveryResult(st, None, None, 0, "zero", msg, "empty")

(***************************************************************************)
(* Character sets.                                                         *)
(***************************************************************************)
Digits == "0123456789"
AsciiLetters == "abcdefghijklmnopqrstuvwxyzABCDEFGHIJKLMNOPQRSTUVWXYZ"
\* string.punctuation; a TLA+ string cannot hold the backquote, "\t" stands for it
Punctuation == "!\"#$%&'()*+,-./:;<=>?@[\\]^_\t{|}~"
\* string.printable.strip(): the trailing whitespace block is stripped
PrintableStripped == Digits \o AsciiLetters \o Punctuation

GetCharset(mode, custom) ==
    IF mode = "numeric" THEN Digits
    ELSE IF mode = "alpha" THEN AsciiLetters
    ELSE IF mode = "alphanumeric" THEN AsciiLetters \o Digits
    ELSE IF mode = "all" THEN PrintableStripped
    ELSE IF mode = "custom" /\ custom # None /\ custom # "" THEN custom
    ELSE AsciiLetters \o Digits

RECURSIVE Pow(_, _)
Pow(b, n) == IF n <= 0 THEN 1 ELSE b * Pow(b, n - 1)

\* sum(len(charset) ** length for length in range(lo, hi + 1))
RECURSIVE TotalPossible(_, _, _)
TotalPossible(cs, lo, hi) ==
    IF lo > hi THEN 0 ELSE Pow(Len(cs), lo) + TotalPossible(cs, lo + 1, hi)

CharAt(s, k) == SubSeq(s, k, k)

\* the k-th tuple (k from 0) of itertools.product(charset, repeat=n), joined:
\* the rightmost position varies fastest
RECURSIVE ProductItem(_, _, _)
ProductItem(cs, n, k) ==
    IF n = 0 THEN ""
    ELSE ProductItem(cs, n - 1, k \div Len(cs)) \o CharAt(cs, (k % Len(cs)) + 1)

(***************************************************************************)
(* Wordlists.                                                              *)
(***************************************************************************)
RECURSIVE LStrip(_)
LStrip(s) == IF Len(s) > 0 /\ CharAt(s, 1) = " " THEN LStrip(SubSeq(s, 2, Len(s))) ELSE s
RECURSIVE RStrip(_)
RStrip(s) == IF Len(s) > 0 /\ CharAt(s, Len(s)) = " " THEN RStrip(SubSeq(s, 1, Len(s) - 1)) ELSE s
Strip(s) == RStrip(LStrip(s))

\* [line.strip() for line in f if line.strip()]
RECURSIVE LoadWordlist(_)
LoadWordlist(lines) ==
    IF lines = <<>> THEN <<>>
    ELSE IF Strip(Head(lines)) # "" THEN <<Strip(Head(lines))>> \o LoadWordlist(Tail(lines))
    ELSE LoadWordlist(Tail(lines))

DefaultWordlist ==
    << "0000", "1111", "1234", "12345", "123456", "0001", "0002",
       "1000", "2000", "3000", "4000", "5000",
       "9999", "8888", "7777", "6666",
       "siemens", "SIEMENS", "simatic", "SIMATIC",
       "allen", "ALLEN", "bradley", "BRADLEY", "rockwell", "ROCKWELL",
       "delta", "DELTA", "omron", "OMRON",
       "plc", "PLC", "admin", "ADMIN", "user", "USER",
       "password", "PASSWORD", "pass", "PASS",
       "system", "SYSTEM", "control", "CONTROL",
       "machine", "MACHINE", "robot", "ROBOT",
       "motor", "MOTOR", "pump", "PUMP",
       "line1", "LINE1", "line2", "LINE2",
       "test", "TEST", "demo", "DEMO",
       "default", "DEFAULT",
       "maintenance", "MAINTENANCE",
       "operator", "OPERATOR",
       "engineer", "ENGINEER",
       "service", "SERVICE",
       "2020", "2021", "2022", "2023", "2024", "2025", "2026",
       "qwerty", "QWERTY", "asdfgh", "ASDFGH",
       "qwertz", "QWERTZ",
       "", " " >>

\* the wordlist _try_dictionary iterates; ok is FALSE when the file cannot be read.
\* custom is config.custom_wordlist, <<>> standing for None and for the empty list
\* (both are falsy); path is config.wordlist_path as [given, readable, lines].
ChooseWordlist(custom, path) ==
    IF custom # <<>> THEN [ok |-> TRUE, words |-> custom]
    ELSE IF path.given
         THEN (IF path.readable THEN [ok |-> TRUE, words |-> LoadWordlist(path.lines)]
               ELSE [ok |-> FALSE, words |-> <<>>])
    ELSE [ok |-> TRUE, words |-> DefaultWordlist]

(***************************************************************************)
(* Inputs drawn by the model.                                              *)
(***************************************************************************)
SeqsUpTo(S, n) == UNION {[1..k -> S] : k \in 0..n}

\* the password the device or the file's protection hash accepts
Secrets == {"", "10"}
TargetTypes == {"online_plc", "backup_file"}
Targets == [target_type : TargetTypes, secret : Secrets]

\* config.methods: lists of distinct methods, so that what a strategy reads from the
\* config when it starts is read once in a call
MethodLists == {ms \in SeqsUpTo(RecoveryMethod, MaxMethods) :
                  \A j, k \in 1..Len(ms) : ms[j] = ms[k] => j = k}

Words == {"", "10"}
CustomWordlists == SeqsUpTo(Words, MaxWords)
FileLines == {" ", " 0", "10 "}
WordlistFiles ==
    {[given |-> FALSE, readable |-> FALSE, lines |-> <<>>],
     [given |-> TRUE, readable |-> FALSE, lines |-> <<>>]}
    \cup {[given |-> TRUE, readable |-> TRUE, lines |-> l] : l \in SeqsUpTo(FileLines, MaxWords)}

CharsetConfigs == { <<"numeric", None>>, <<"custom", "01">>, <<"custom", "00">> }
AttemptCaps == {2, MaxAttempts}

\* what parser.extract_password hands back to _try_file_parse, or how the lookup ends
FileParseOutcomes ==
    {[kind |-> "no_parser", password |-> None, hash |-> None],
     [kind |-> "raise", password |-> None, hash |-> None]}
    \cup {[kind |-> "info", password |-> p, hash |-> h] : p \in {None, "", "10"}, h \in {None, "hash"}}

\* the registered exploit classes, in registration order
ExploitRegistry == <<"S7_300_SDBExtract", "S7_400_SDBExtract", "S7_1200_WeakHash">>
\* what exploit.execute(target) does: a dict with success and password, or an exception
ExploitOutcomes ==
    {[raises |-> TRUE, success |-> FALSE, password |-> None]}
    \cup {[raises |-> FALSE, success |-> s, password |-> p] : s \in BOOLEAN, p \in {None, "", "10"}}

\* (variant for C6: only None is falsy)
Truthy_NotNone(x) == x # None
\* Python truthiness of an Optional[str]: result.get('password'), result.get('hash')
Truthy(x) == x # None /\ x # ""

\* (variant for C1: the gate left out)
Refused_Never(auth) == FALSE
\* "if not authorization_confirmed": the call is refused
Refused(auth) == ~auth

\* (variant for C9: the list walked from its end)
NextMethod_Reversed(ms, k) == ms[Len(ms) + 1 - k]
\* "for method in config.methods": the method of the k-th turn
NextMethod(ms, k) == ms[k]

\* (variant for C10: the cap compared strictly)
CapReached_Late(a, cap) == a > cap
\* "if attempts >= config.max_attempts"
CapReached(a, cap) == a >= cap

\* (variant for C2: the index reported instead of the count)
DictSuccess_Index(password, k) ==
    RecoveryResult(SUCCESS, password, DICTIONARY, k, "strategy", None, "empty")
\* the result _try_dictionary returns on a match at index k (from 0)
DictSuccess(password, k) ==
    RecoveryResult(SUCCESS, password, DICTIONARY, k + 1, "strategy", None, "empty")

\* the result _try_bruteforce returns on a match
BfSuccess(password, a) ==
    RecoveryResult(SUCCESS, password, BRUTEFORCE, a, "strategy", None, "empty")

(***************************************************************************)
(* State.                                                                  *)
(***************************************************************************)
VARIABLES
    \* RecoveryEngine fields
    running, cancel_flag, progress_callback, attempts,
    \* the recover() call: its arguments, its position and its locals
    pc, authorization_confirmed, target, methods, callback, idx, result, method_result, exc,
    \* what the last recover() call returned
    ret,
    \* locals of _try_dictionary
    wordlist, i,
    \* locals of _try_bruteforce
    charset, min_length, max_length, max_attempts, length, pos, bf_attempts,
    \* locals of _try_vulnerability; target.vendor and target.model as it read them, and
    \* the exploits it has executed with the way each execute() ended
    exploits, e, target_vendor, target_model, executed,
    \* history: candidates handed to _verify_password by the running strategy, their
    \* number over the whole call, the strategies started, whether a poll saw the flag
    tried, nVerified, started, sawCancel

engineVars == <<running, cancel_flag, progress_callback, attempts>>
callVars == <<authorization_confirmed, target, methods, callback>>
dictVars == <<wordlist, i>>
bfVars == <<charset, min_length, max_length, max_attempts, length, pos, bf_attempts>>
vulnVars == <<exploits, e, target_vendor, target_model, executed>>
histVars == <<tried, nVerified, started, sawCancel>>
recoveryVars == <<engineVars, callVars, pc, idx, result, method_result, exc, ret,
                  dictVars, bfVars, vulnVars, histVars>>

(***************************************************************************)
(* State of the audit trail.                                               *)
(***************************************************************************)
VARIABLES
    \* the log directory: for each local calendar day the lines of audit_<day>.jsonl
    \* (no line: the file does not exist)
    files,
    \* AuditLogger fields: _last_hash, _current_log_file, _lock (0: free, else the holder)
    last_hash, current_log_file, lock,
    \* the threads calling log(): position, arguments and the entry being built
    tpc, targs, tentry,
    \* the clock in half days (UTC), and the zone's offset from UTC in half days
    clock, tz,
    \* the uuid4 source, as a counter
    next_event_id,
    \* what the last verify_integrity() returned
    verify_result,
    \* history: log() calls started, entries appended by the present logger, the
    \* hash the directory ended with when the present logger was constructed,
    \* loggers constructed, appends that failed, and the place of the changed line
    nLogCalls, appended, dir_last_hash, nLoggers, nWriteFailed, tampered

loggerVars == <<last_hash, current_log_file, lock>>
threadVars == <<tpc, targs, tentry>>
clockVars == <<clock, tz>>
auditHist == <<nLogCalls, appended, dir_last_hash, nLoggers, nWriteFailed, tampered>>
auditVars == <<files, loggerVars, threadVars, clockVars, next_event_id, verify_result,
               auditHist>>

\* previous_hash / _last_hash = None
NoHash == <<>>
Threads == {1, 2}
Days == 0..MaxDay
\* no tampering has happened
NoPlace == <<>>
NotVerified == [valid |-> TRUE, total_entries |-> 0, broken_chains |-> <<>>,
                modified_entries |-> <<>>, errors |-> <<>>, done |-> FALSE]
NoArgs == [action |-> None, target |-> <<>>, result |-> None, details |-> <<>>,
           duration_ms |-> <<>>]
NoEntry == [timestamp |-> 0, event_id |-> 0, user |-> None, machine_id |-> None,
            action |-> None, target |-> <<>>, result |-> None, details |-> <<>>,
            duration_ms |-> <<>>, previous_hash |-> NoHash, entry_hash |-> NoHash]

\* an empty log directory and an AuditLogger constructed over it on day 0, in a zone
\* z half days ahead of UTC
AuditStart(z) ==
    /\ files = [d \in Days |-> <<>>]
    /\ last_hash = NoHash /\ current_log_file = 0 /\ lock = 0
    /\ tpc = [t \in Threads |-> "idle"]
    /\ targs = [t \in Threads |-> NoArgs]
    /\ tentry = [t \in Threads |-> NoEntry]
    /\ clock = 0 /\ tz = z
    /\ next_event_id = 1
    /\ verify_result = NotVerified
    /\ nLogCalls = 0 /\ appended = <<>> /\ dir_last_hash = NoHash /\ nLoggers = 1
    /\ nWriteFailed = 0 /\ tampered = NoPlace

(***************************************************************************)
(* State of the entry paths (GUI, CLI, a caller of the engine) and of      *)
(* DeviceFactory.                                                          *)
(***************************************************************************)
VARIABLES
    \* the handler that runs: its position, the request it serves, what recover()
    \* returned to it, and the number of failed appends when it called log()
    fpc, freq, fresult, fmark,
    \* history: the requests served, each with its outcome and its log() calls
    requests,
    \* DeviceFactory._drivers, as the set of the vendors that have a driver class
    drivers,
    \* the create() call: its position, its vendor argument, the vendor it has resolved
    \* so far, the vendor _detect_vendor returned, the driver instance, and how the
    \* call ended
    cpc, cvarg, cvendor, detected, driver, cret,
    \* the sockets a probe holds open
    sock,
    \* history of the call: the probes run with their verdicts, the driver instances
    \* made and the connect() calls made
    probed, nInstances, nConnects

frontVars == <<fpc, freq, fresult, fmark, requests>>
factoryVars == <<drivers, cpc, cvarg, cvendor, detected, driver, cret, sock, probed, nInstances,
                 nConnects>>

VARIABLES
    \* one _extract_project_password call: its position, the archive (the entries in the
    \* order of zf.namelist()), the entry the loop is at, and its result dict
    zpc, zf, zn, zresult

parserVars == <<zpc, zf, zn, zresult>>
\* the dict _extract_project_password starts with
NoProtection == [hash |-> None, algorithm |-> None, salt |-> None, protected |-> FALSE]
\* no extraction runs
ParserIdle == zpc = "idle" /\ zf = <<>> /\ zn = 0 /\ zresult = NoProtection

VARIABLES
    \* the RecoveryProgress last handed to the progress callback: its method, the
    \* candidate it was built for, and its current_password
    progress_method, progress_candidate, current_password

progressVars == <<progress_method, progress_candidate, current_password>>
\* no progress has been reported
ProgressIdle == progress_method = None /\ progress_candidate = <<>> /\ current_password = <<>>

VARIABLES
    \* UnifiedPLC._monitoring_active, the monitor thread's position, the tag its "for"
    \* loop is at, and its dict last_values
    monitoring_active, mon_pc, mon_tag, last_values,
    \* the values the device holds for the tags
    device_tags,
    \* history: the rounds of the loop begun, and what the last turn of the "for" loop did
    mon_rounds, mon_last

monitorVars == <<monitoring_active, mon_pc, mon_tag, last_values, device_tags, mon_rounds, mon_last>>
\* a Python object: an int, a TagValue holding an int, or nothing
Obj(ty, v) == [type |-> ty, val |-> v]
Nothing == Obj("none", 0)
MonitorTags == <<"Tag1", "Tag2">>
NoTurn == [tag |-> None, read |-> Nothing, prior |-> Nothing, called |-> Nothing]
\* monitor() has not been called
MonitorIdle ==
    /\ monitoring_active = FALSE /\ mon_pc = "idle" /\ mon_tag = 1
    /\ last_values = [t \in {} |-> Nothing]
    /\ device_tags = [t \in {MonitorTags[k] : k \in 1..Len(MonitorTags)} |-> 100]
    /\ mon_rounds = 0 /\ mon_last = NoTurn

VARIABLES
    \* one _extract_hash_from_binary call on the bytes of a companion: the content and
    \* what the call returned
    bin_content, bin_result

scanVars == <<bin_content, bin_result>>
\* "return None", and the state before any call
NoHashInfo == [hash |-> <<>>, salt |-> <<>>, algorithm |-> None, offset |-> 0 - 1]
ScanIdle == bin_content = <<>> /\ bin_result = NoHashInfo

VARIABLES
    \* one read_tags or write_tags call of PLCDevice: its position, which of the two it is,
    \* the names given (for write_tags the keys of the dict, in insertion order), the
    \* name the iteration is at, and what the call returned
    batch_pc, batch_op, batch_tags, batch_idx, batch_ret,
    \* history: the read_tag and write_tag calls made, each with what it returned
    batch_calls

batchVars == <<batch_pc, batch_op, batch_tags, batch_idx, batch_ret, batch_calls>>
\* no batched call runs
BatchIdle ==
    /\ batch_pc = "idle" /\ batch_op = None /\ batch_tags = <<>> /\ batch_idx = 1
    /\ batch_ret = <<>> /\ batch_calls = <<>>

VARIABLES
    \* the module global _logger of audit_log (0 is None, otherwise the number of an
    \* AuditLogger instance), and per instance its _last_hash (0 is None, otherwise the
    \* event id of the entry hashed)
    global_logger, instance_hash,
    \* each thread's position in get_logger(), the instance it has constructed, and the
    \* instance get_logger() returned to it
    gpc, gnew, gheld,
    \* the entries of the day's file, each with its event id and previous_hash
    gfile,
    \* history: the instances get_logger() has returned, and the calls made
    greturned, nGetCalls
getLoggerVars == <<global_logger, instance_hash, gpc, gnew, gheld, gfile, greturned,
                   nGetCalls>>
\* the process has started: no logger yet, an empty log directory
GetLoggerIdle ==
    /\ global_logger = 0 /\ instance_hash = <<>>
    /\ gpc = [t \in Threads |-> "idle"]
    /\ gnew = [t \in Threads |-> 0]
    /\ gheld = [t \in Threads |-> 0]
    /\ gfile = <<>> /\ greturned = {} /\ nGetCalls = 0

VARIABLES
    \* history: cancel() was called after "self._running = True" and before the start-up
    \* reset of the recover() call in progress
    startup_cancel
startVars == <<startup_cancel>>
StartIdle == startup_cancel = FALSE

vars == <<recoveryVars, auditVars, frontVars, factoryVars, parserVars, progressVars, monitorVars, scanVars, batchVars, getLoggerVars, startVars>>
\* what the audit trail's own steps leave alone
notAuditVars == <<recoveryVars, frontVars, factoryVars, parserVars, progressVars, monitorVars, scanVars, batchVars, getLoggerVars, startVars>>
\* what the engine's own steps leave alone
notRecoveryVars == <<auditVars, frontVars, factoryVars, parserVars, progressVars, monitorVars, scanVars, batchVars, getLoggerVars, startVars>>
\* what cancel() and the start-up reset leave alone
notEngineVars == <<auditVars, frontVars, factoryVars, parserVars, progressVars, monitorVars, scanVars, batchVars, getLoggerVars>>

NotReturned == ResultOf("<not returned>", None)

\* no handler runs and none has run
NoRequest == [path |-> None, kind |-> None, tgt |-> <<>>, duration_ms |-> 0, calls |-> <<>>]
FrontIdle ==
    /\ fpc = "idle" /\ freq = NoRequest /\ fresult = NotReturned /\ fmark = 0
    /\ requests = <<>>

\* no create() call runs, and no driver class has been registered
NoDriver == [vendor |-> None, last_error |-> None, connected |-> FALSE]
NotEnded == [kind |-> None, vendor |-> None, text |-> None]
FactoryIdle ==
    /\ drivers = {}
    /\ cpc = "idle" /\ cvarg = None /\ cvendor = None /\ detected = None
    /\ driver = NoDriver
    /\ cret = NotEnded /\ sock = 0 /\ probed = <<>> /\ nInstances = 0 /\ nConnects = 0

\* the locals of the four strategies before a strategy has touched them
FreshLocals ==
    /\ wordlist' = <<>> /\ i' = 0
    /\ charset' = "" /\ min_length' = 0 /\ max_length' = 0 /\ max_attempts' = 0
    /\ length' = 0 /\ pos' = 0 /\ bf_attempts' = 0
    /\ exploits' = <<>> /\ e' = 0
    /\ target_vendor' = <<>> /\ target_model' = <<>> /\ executed' = <<>>
    /\ tried' = <<>>

RecoveryIdle ==
    /\ running = FALSE /\ cancel_flag = FALSE /\ progress_callback = FALSE
    /\ attempts = 0
    /\ pc = "idle" /\ authorization_confirmed = FALSE
    /\ target = [target_type |-> "online_plc", secret |-> None]
    /\ methods = <<>> /\ callback = FALSE /\ idx = 1
    /\ result = NotReturned /\ method_result = NotReturned /\ exc = None
    /\ ret = NotReturned
    /\ wordlist = <<>> /\ i = 0
    /\ charset = "" /\ min_length = 0 /\ max_length = 0 /\ max_attempts = 0
    /\ length = 0 /\ pos = 0 /\ bf_attempts = 0
    /\ exploits = <<>> /\ e = 0
    /\ target_vendor = <<>> /\ target_model = <<>> /\ executed = <<>>
    /\ tried = <<>> /\ nVerified = 0 /\ started = <<>> /\ sawCancel = FALSE

Init == RecoveryIdle /\ AuditStart(0) /\ FrontIdle /\ FactoryIdle /\ ParserIdle /\ ProgressIdle /\ MonitorIdle /\ ScanIdle /\ BatchIdle /\ GetLoggerIdle /\ StartIdle

\* (variant for C5: the polls never see the flag)
CancelRequested_Never == FALSE
\* "if self._cancel_flag": what a poll of the flag sees
CancelRequested == cancel_flag

(***************************************************************************)
(* _verify_password                                                        *)
(***************************************************************************)
\* device.authenticate(password)
Authenticate(t, password) == t.secret # None /\ password = t.secret

\* the digest the file parser compares: sha256(salt + password)
ProtectionHash(password) == <<"SHA256_SALTED", password>>
\* parser.verify_password(file_path, password, protection_type)
ParserVerify(t, password) ==
    t.secret # None /\ ProtectionHash(password) = ProtectionHash(t.secret)

\* how often one parser.verify_password call opens the archive: its first statement is
\* self.extract_password(file_path, protection_type), which runs zipfile.ZipFile(file_path)
\* and scans the entries again; nothing of an earlier scan is kept
OpensPerVerify(t) == IF t.target_type = "backup_file" THEN 1 ELSE 0

VerifyPassword(t, password) ==
    IF t.target_type = "online_plc" THEN Authenticate(t, password)
    ELSE IF t.target_type = "backup_file" THEN ParserVerify(t, password)
    ELSE FALSE

(***************************************************************************)
(* recover()                                                               *)
(***************************************************************************)
\* the finally block: result.attempts and result.duration_seconds
Finally(r) == [r EXCEPT !.attempts = attempts, !.duration = "call"]

\* recover(target, config, authorization_confirmed), up to self._running = True.
\* Without authorization it returns before config is read.
Recover ==
    /\ pc = "idle"
    /\ \E auth \in BOOLEAN, t \in Targets :
        /\ authorization_confirmed' = auth
        /\ target' = t
        /\ IF Refused(auth)
           THEN /\ ret' = ResultOf(FAILED, MsgNotAuthorized)
                /\ pc' = "return"
                /\ running' = running
           ELSE /\ ret' = ret
                /\ pc' = "reset"
                /\ running' = TRUE
    /\ UNCHANGED <<cancel_flag, progress_callback, attempts, methods, callback, idx, result,
                   method_result, exc, dictVars, bfVars, vulnVars, histVars>>

\* the caller has the result: the frame of recover() is gone, the engine stays as it is
Return ==
    /\ pc = "return"
    /\ pc' = "idle"
    /\ authorization_confirmed' = FALSE
    /\ target' = [target_type |-> "online_plc", secret |-> None]
    /\ methods' = <<>> /\ callback' = FALSE
    /\ idx' = 1 /\ result' = NotReturned /\ method_result' = NotReturned /\ exc' = None
    /\ ret' = NotReturned
    /\ FreshLocals
    /\ nVerified' = 0 /\ started' = <<>> /\ sawCancel' = FALSE
    /\ UNCHANGED engineVars

\* the rest of recover()'s start-up: the flag, the callback and the counter are reset;
\* config.callback and config.methods are read
Reset ==
    /\ pc = "reset"
    /\ \E ms \in MethodLists, cb \in BOOLEAN :
         /\ methods' = ms
         /\ callback' = cb
         /\ progress_callback' = cb
    /\ cancel_flag' = FALSE
    /\ startup_cancel' = FALSE
    /\ attempts' = 0
    /\ result' = ResultOf(RUNNING, None)
    /\ pc' = "loop"
    /\ UNCHANGED <<running, authorization_confirmed, target, idx, method_result, exc, ret,
                   dictVars, bfVars, vulnVars, histVars>>

\* _try_method: the strategy a method starts in
TryMethod(m) ==
    CASE m = FILE_PARSE -> "file_parse"
      [] m = DICTIONARY -> "dict_load"
      [] m = BRUTEFORCE -> "bf_init"
      [] m = VULNERABILITY -> "vuln_lookup"

\* (variant for C7: the result is returned as the loop left it)
NoMethodSucceeded_Keep(r) == r
\* lines 154-157: the status recover() gives its own result once the loop is left
NoMethodSucceeded(r) ==
    IF r.status # CANCELLED
    THEN [r EXCEPT !.status = FAILED, !.error_message = MsgAllExhausted]
    ELSE r

\* the head of "for method in config.methods": the flag is polled, then the method
\* starts; when the loop is left, "No method succeeded", the finally block and the return
Loop ==
    /\ pc = "loop"
    /\ IF idx > Len(methods)
       THEN /\ result' = Finally(NoMethodSucceeded(result))
            /\ ret' = Finally(NoMethodSucceeded(result))
            /\ running' = FALSE
            /\ pc' = "return"
            /\ UNCHANGED <<dictVars, bfVars, vulnVars, histVars>>
       ELSE IF CancelRequested
       THEN /\ result' = Finally(NoMethodSucceeded([result EXCEPT !.status = CANCELLED]))
            /\ ret' = Finally(NoMethodSucceeded([result EXCEPT !.status = CANCELLED]))
            /\ running' = FALSE
            /\ sawCancel' = TRUE
            /\ pc' = "return"
            /\ UNCHANGED <<dictVars, bfVars, vulnVars, tried, nVerified, started>>
       ELSE /\ started' = Append(started, NextMethod(methods, idx))
            /\ FreshLocals
            /\ pc' = TryMethod(NextMethod(methods, idx))
            /\ UNCHANGED <<running, result, ret, nVerified, sawCancel>>
    /\ UNCHANGED <<cancel_flag, progress_callback, attempts, callVars, idx,
                   method_result, exc>>

\* back in recover() with method_result: return it on success, else the next method
\* (the locals of the strategy that returned are gone)
MethodDone ==
    /\ pc = "method_done"
    /\ IF method_result.status = SUCCESS
       THEN /\ running' = FALSE
            /\ result' = Finally(result)
            /\ ret' = method_result
            /\ pc' = "return"
            /\ UNCHANGED <<idx, dictVars, bfVars, vulnVars, tried>>
       ELSE /\ idx' = idx + 1
            /\ pc' = "loop"
            /\ FreshLocals
            /\ UNCHANGED <<running, result, ret>>
    /\ UNCHANGED <<cancel_flag, progress_callback, attempts, callVars,
                   method_result, exc, nVerified, started, sawCancel>>

\* except Exception: an exception that left a strategy ends the call as FAILED
Except ==
    /\ pc = "except"
    /\ LET r == [result EXCEPT !.status = FAILED, !.error_message = exc]
       IN /\ result' = Finally(r)
          /\ ret' = Finally(r)
    /\ running' = FALSE
    /\ pc' = "return"
    /\ UNCHANGED <<cancel_flag, progress_callback, attempts, callVars, idx,
                   method_result, exc, dictVars, bfVars, vulnVars, histVars>>

\* cancel(), called from another thread at any moment
Cancel ==
    /\ cancel_flag' = TRUE
    /\ startup_cancel' = (startup_cancel \/ (running /\ pc = "reset"))
    /\ UNCHANGED <<running, progress_callback, attempts, callVars, pc, idx,
                   result, method_result, exc, ret, dictVars, bfVars, vulnVars, histVars>>

(***************************************************************************)
(* _try_file_parse                                                         *)
(***************************************************************************)
TryFileParse ==
    /\ pc = "file_parse"
    /\ IF target.target_type # "backup_file"
       THEN method_result' = ResultOf(FAILED, MsgNeedsFile)
       ELSE \E out \in FileParseOutcomes :
              method_result' =
                IF out.kind = "no_parser" THEN ResultOf(FAILED, MsgNoParser)
                ELSE IF out.kind = "raise" THEN ResultOf(FAILED, MsgFileParseError)
                ELSE IF Truthy(out.password)
                     THEN RecoveryResult(SUCCESS, out.password, FILE_PARSE, 0, "zero", None, "parse")
                ELSE IF Truthy(out.hash)
                     THEN RecoveryResult(FAILED, None, None, 0, "zero", MsgHashOnly, "parse")
                ELSE ResultOf(FAILED, MsgNoInfo)
    /\ pc' = "method_done"
    /\ UNCHANGED <<engineVars, callVars, idx, result, exc, ret,
                   dictVars, bfVars, vulnVars, histVars>>

(***************************************************************************)
(* _try_dictionary                                                         *)
(***************************************************************************)
\* the wordlist is taken from the config
DictLoad ==
    /\ pc = "dict_load"
    /\ \E custom \in CustomWordlists, path \in WordlistFiles :
         LET w == ChooseWordlist(custom, path)
         IN IF w.ok
            THEN /\ wordlist' = w.words
                 /\ pc' = "dict_poll"
                 /\ method_result' = method_result
            ELSE /\ wordlist' = wordlist
                 /\ pc' = "method_done"
                 /\ method_result' = ResultOf(FAILED, MsgWordlistError)
    /\ i' = 0
    /\ UNCHANGED <<engineVars, callVars, idx, result, exc, ret, bfVars, vulnVars, histVars>>

\* the head of "for i, password in enumerate(wordlist)": the flag is polled, the
\* counter is advanced and progress is reported
DictPoll ==
    /\ pc = "dict_poll"
    /\ IF i >= Len(wordlist)
       THEN /\ method_result' =
                  RecoveryResult(FAILED, None, None, Len(wordlist), "zero", MsgDictExhausted, "empty")
            /\ pc' = "method_done"
            /\ UNCHANGED <<attempts, exc, sawCancel>>
       ELSE IF CancelRequested
       THEN /\ method_result' = ResultOf(CANCELLED, None)
            /\ sawCancel' = TRUE
            /\ pc' = "method_done"
            /\ UNCHANGED <<attempts, exc>>
       ELSE /\ attempts' = attempts + 1
            /\ IF progress_callback /\ i % DictProgressEvery = 0
               THEN \E raises \in BOOLEAN :
                       IF raises THEN pc' = "except" /\ exc' = MsgCallbackError
                       ELSE pc' = "dict_verify" /\ exc' = exc
               ELSE pc' = "dict_verify" /\ exc' = exc
            /\ UNCHANGED <<method_result, sawCancel>>
    /\ UNCHANGED <<running, cancel_flag, progress_callback, callVars, idx,
                   result, ret, dictVars, bfVars, vulnVars, tried, nVerified, started>>

\* self._verify_password(target, password, config) and what follows it
DictVerify ==
    /\ pc = "dict_verify"
    /\ LET password == wordlist[i + 1]
       IN /\ tried' = Append(tried, password)
          /\ nVerified' = nVerified + 1
          /\ IF VerifyPassword(target, password)
             THEN /\ method_result' = DictSuccess(password, i)
                  /\ pc' = "method_done"
                  /\ i' = i
             ELSE /\ i' = i + 1
                  /\ pc' = "dict_poll"
                  /\ method_result' = method_result
    /\ UNCHANGED <<engineVars, callVars, idx, result, exc, ret, wordlist, bfVars, vulnVars,
                   started, sawCancel>>

(***************************************************************************)
(* _try_bruteforce                                                         *)
(***************************************************************************)
\* the charset and the limits are taken from the config
BfInit ==
    /\ pc = "bf_init"
    /\ \E cc \in CharsetConfigs, lo \in 0..MaxLen, hi \in 0..MaxLen, cap \in AttemptCaps :
         /\ charset' = GetCharset(cc[1], cc[2])
         /\ min_length' = lo /\ max_length' = hi /\ max_attempts' = cap
         /\ length' = lo
    /\ bf_attempts' = 0 /\ pos' = 0
    /\ pc' = "bf_length"
    /\ UNCHANGED <<engineVars, callVars, idx, result, method_result, exc, ret,
                   dictVars, vulnVars, histVars>>

\* the head of "for length in range(min_length, max_length + 1)"
BfLength ==
    /\ pc = "bf_length"
    /\ IF length > max_length
       THEN /\ method_result' =
                  RecoveryResult(FAILED, None, None, bf_attempts, "zero", MsgBfExhausted, "empty")
            /\ pc' = "method_done"
            /\ UNCHANGED <<pos, sawCancel>>
       ELSE IF CancelRequested
       THEN /\ method_result' = ResultOf(CANCELLED, None)
            /\ sawCancel' = TRUE
            /\ pc' = "method_done"
            /\ pos' = pos
       ELSE /\ pos' = 0
            /\ pc' = "bf_poll"
            /\ UNCHANGED <<method_result, sawCancel>>
    /\ UNCHANGED <<engineVars, callVars, idx, result, exc, ret, dictVars, vulnVars,
                   charset, min_length, max_length, max_attempts, length, bf_attempts,
                   tried, nVerified, started>>

\* the head of "for password_tuple in itertools.product(charset, repeat=length)": the
\* flag and the cap are polled, the counters are advanced and progress is reported
BfPoll ==
    /\ pc = "bf_poll"
    /\ IF pos >= Pow(Len(charset), length)
       THEN /\ length' = length + 1
            /\ pc' = "bf_length"
            /\ UNCHANGED <<method_result, sawCancel, bf_attempts, attempts, exc>>
       ELSE IF CancelRequested
       THEN /\ method_result' = ResultOf(CANCELLED, None)
            /\ sawCancel' = TRUE
            /\ pc' = "method_done"
            /\ UNCHANGED <<length, bf_attempts, attempts, exc>>
       ELSE IF CapReached(bf_attempts, max_attempts)
       THEN /\ method_result' =
                  RecoveryResult(FAILED, None, None, bf_attempts, "zero", MsgMaxAttempts, "empty")
            /\ pc' = "method_done"
            /\ UNCHANGED <<length, bf_attempts, attempts, exc, sawCancel>>
       ELSE /\ bf_attempts' = bf_attempts + 1
            /\ attempts' = attempts + 1
            /\ IF progress_callback /\ (bf_attempts + 1) % BfProgressEvery = 0
               THEN \E raises \in BOOLEAN :
                       IF raises THEN pc' = "except" /\ exc' = MsgCallbackError
                       ELSE pc' = "bf_verify" /\ exc' = exc
               ELSE pc' = "bf_verify" /\ exc' = exc
            /\ UNCHANGED <<method_result, sawCancel, length>>
    /\ UNCHANGED <<running, cancel_flag, progress_callback, callVars, idx,
                   result, ret, dictVars, vulnVars, charset, min_length, max_length,
                   max_attempts, pos, tried, nVerified, started>>

\* self._verify_password(target, password, config) and what follows it
BfVerify ==
    /\ pc = "bf_verify"
    /\ LET password == ProductItem(charset, length, pos)
       IN /\ tried' = Append(tried, password)
          /\ nVerified' = nVerified + 1
          /\ IF VerifyPassword(target, password)
             THEN /\ method_result' = BfSuccess(password, bf_attempts)
                  /\ pc' = "method_done"
                  /\ pos' = pos
             ELSE /\ pos' = pos + 1
                  /\ pc' = "bf_poll"
                  /\ method_result' = method_result
    /\ UNCHANGED <<engineVars, callVars, idx, result, exc, ret, dictVars, vulnVars,
                   charset, min_length, max_length, max_attempts, length, bf_attempts,
                   started, sawCancel>>

(***************************************************************************)
(* _try_vulnerability                                                      *)
(***************************************************************************)
\* a str is the sequence of its characters
Chr_S7 == <<"S", "7", "-">>
Str_Siemens == <<"S", "i", "e", "m", "e", "n", "s">>
\* the class attributes affected_vendors and affected_models of the registered exploits
affected_vendors(x) == <<Str_Siemens>>
affected_models(x) ==
    CASE x = "S7_300_SDBExtract" ->
           <<Chr_S7 \o <<"3", "0", "0">>, Chr_S7 \o <<"3", "1", "5">>,
             Chr_S7 \o <<"3", "1", "7">>, Chr_S7 \o <<"3", "1", "9">> >>
      [] x = "S7_400_SDBExtract" ->
           <<Chr_S7 \o <<"4", "0", "0">>, Chr_S7 \o <<"4", "1", "0">>,
             Chr_S7 \o <<"4", "1", "2">>, Chr_S7 \o <<"4", "1", "4">>,
             Chr_S7 \o <<"4", "1", "6">>, Chr_S7 \o <<"4", "1", "7">> >>
      [] x = "S7_1200_WeakHash" ->
           <<Chr_S7 \o <<"1", "2", "0", "0">>, Chr_S7 \o <<"1", "2", "1", "1">>,
             Chr_S7 \o <<"1", "2", "1", "2">>, Chr_S7 \o <<"1", "2", "1", "4">>,
             Chr_S7 \o <<"1", "2", "1", "5">>, Chr_S7 \o <<"1", "2", "1", "7">> >>

\* target.vendor and target.model as the callers of recover() and the tests give them:
\* the command line and the window pass a lower-case vendor name and model ""
TargetVendors == { <<"s", "i", "e", "m", "e", "n", "s">>, <<"S", "I", "E">>, <<"o", "m", "r", "o", "n">> }
TargetModels == { <<>>, <<"s", "7", "-", "3", "1", "7">>, Chr_S7 \o <<"1", "2", "0", "0", " ", "C", "P", "U">> }

\* str.lower() on the letters of the model
LowerChar(c) ==
    CASE c = "S" -> "s" [] c = "I" -> "i" [] c = "E" -> "e" [] c = "C" -> "c"
      [] c = "P" -> "p" [] c = "U" -> "u" [] c = "V" -> "v" [] OTHER -> c
str_lower(s) == [k \in 1..Len(s) |-> LowerChar(s[k])]
\* Python's "a in b" on str
StrIn(a, b) == \E k \in 0..(Len(b) - Len(a)) : \A j \in 1..Len(a) : b[k + j] = a[j]
\* any(v.lower() in given_lower or given_lower in v.lower() for v in affected)
AnyMatch(affected, given_lower) ==
    \E k \in 1..Len(affected) :
        \/ StrIn(str_lower(affected[k]), given_lower)
        \/ StrIn(given_lower, str_lower(affected[k]))
\* (variant for C22: the model list is not looked at)
Applicable_VendorOnly(x, v, m) == AnyMatch(affected_vendors(x), str_lower(v))
\* "if vendor_match and model_match"
Applicable(x, v, m) ==
    AnyMatch(affected_vendors(x), str_lower(v)) /\ AnyMatch(affected_models(x), str_lower(m))
\* get_exploits(vendor, model): an instance of every matching class, in registration order
get_exploits(v, m) ==
    LET Test(x) == Applicable(x, v, m) IN SelectSeq(ExploitRegistry, Test)

\* the series marks check_applicable looks for in the model name the device reports
SeriesMarks(x) ==
    CASE x = "S7_300_SDBExtract" -> << <<"s", "7", "-", "3", "0", "0">>, <<"s", "7", "-", "3">> >>
      [] x = "S7_400_SDBExtract" -> << <<"s", "7", "-", "4", "0", "0">>, <<"s", "7", "-", "4">> >>
      [] x = "S7_1200_WeakHash" -> << <<"s", "7", "-", "1", "2", "0", "0">>, <<"s", "7", "-", "1", "2">> >>
\* the firmware marks S7_1200_WeakHash.check_applicable looks for
FirmwareMarks(x) ==
    IF x = "S7_1200_WeakHash" THEN << <<"v", "1">>, <<"v", "2">>, <<"v", "3">> >> ELSE << <<>> >>
Firmwares == { <<"V", "2", ".", "0">>, <<"V", "4", ".", "0">> }
\* exploit.check_applicable(target): False without a device, else by the model (and for
\* the S7-1200 the firmware) the device reports
check_applicable(x, has_device, info_model, info_firmware) ==
    /\ has_device
    /\ \E k \in 1..Len(SeriesMarks(x)) : StrIn(SeriesMarks(x)[k], str_lower(info_model))
    /\ \E k \in 1..Len(FirmwareMarks(x)) : StrIn(FirmwareMarks(x)[k], str_lower(info_firmware))
\* target.device: the callers give a device to an online target at most (main.py builds
\* its backup-file target without one)
HasDevice(t) == t.target_type = "online_plc"

\* how exploit.execute(target) ended, as the loop sees it
Ending(out) ==
    IF out.raises THEN "raised"
    ELSE IF out.success /\ Truthy(out.password) THEN "success" ELSE "no_success"

\* exploits = get_exploits(target.vendor, target.model), and the empty list
VulnLookup ==
    /\ pc = "vuln_lookup"
    /\ \E v \in TargetVendors, m \in TargetModels :
         /\ target_vendor' = v
         /\ target_model' = m
         /\ exploits' = get_exploits(v, m)
         /\ IF get_exploits(v, m) = <<>>
            THEN pc' = "method_done" /\ method_result' = ResultOf(FAILED, MsgNoExploits)
            ELSE pc' = "vuln_loop" /\ method_result' = method_result
    /\ e' = 1
    /\ executed' = <<>>
    /\ UNCHANGED <<engineVars, callVars, idx, result, exc, ret, dictVars, bfVars, histVars>>

\* one turn of "for exploit in exploits": the flag is polled, the exploit is executed;
\* "except Exception: pass" lets the loop go on as it does after a dict without success
VulnExecute ==
    /\ pc = "vuln_loop"
    /\ IF e > Len(exploits)
       THEN /\ method_result' = ResultOf(FAILED, MsgNoExploitWorked)
            /\ pc' = "method_done"
            /\ UNCHANGED <<e, sawCancel, executed>>
       ELSE IF CancelRequested
       THEN /\ method_result' = ResultOf(CANCELLED, None)
            /\ sawCancel' = TRUE
            /\ pc' = "method_done"
            /\ UNCHANGED <<e, executed>>
       ELSE /\ \E out \in ExploitOutcomes :
                 /\ executed' = Append(executed, [name |-> exploits[e], ending |-> Ending(out)])
                 /\ IF ~out.raises /\ out.success /\ Truthy(out.password)
                    THEN /\ method_result' =
                               RecoveryResult(SUCCESS, out.password, VULNERABILITY, 0, "zero", None, "exploit")
                         /\ pc' = "method_done"
                         /\ e' = e
                    ELSE /\ e' = e + 1
                         /\ pc' = "vuln_loop"
                         /\ method_result' = method_result
            /\ sawCancel' = sawCancel
    /\ UNCHANGED <<engineVars, callVars, idx, result, exc, ret, dictVars, bfVars, exploits,
                   target_vendor, target_model, tried, nVerified, started>>

(***************************************************************************)
(* Specification.                                                          *)
(***************************************************************************)
\* the recovery engine alone: the audit trail is not touched (the engine never logs)
Next ==
    \/ Recover /\ UNCHANGED notRecoveryVars
    \/ Return /\ UNCHANGED notRecoveryVars
    \/ Reset /\ UNCHANGED notEngineVars
    \/ Loop /\ UNCHANGED notRecoveryVars
    \/ MethodDone /\ UNCHANGED notRecoveryVars
    \/ Except /\ UNCHANGED notRecoveryVars
    \/ Cancel /\ UNCHANGED notEngineVars
    \/ TryFileParse /\ UNCHANGED notRecoveryVars
    \/ DictLoad /\ UNCHANGED notRecoveryVars
    \/ DictPoll /\ UNCHANGED notRecoveryVars
    \/ DictVerify /\ UNCHANGED notRecoveryVars
    \/ BfInit /\ UNCHANGED notRecoveryVars
    \/ BfLength /\ UNCHANGED notRecoveryVars
    \/ BfPoll /\ UNCHANGED notRecoveryVars
    \/ BfVerify /\ UNCHANGED notRecoveryVars
    \/ VulnLookup /\ UNCHANGED notRecoveryVars
    \/ VulnExecute /\ UNCHANGED notRecoveryVars

Spec == Init /\ [][Next]_vars

(***************************************************************************)
(* Helpers of the properties.                                              *)
(***************************************************************************)
Last(s) == s[Len(s)]
Range(s) == {s[k] : k \in 1..Len(s)}
NoDuplicates(s) == \A j, k \in 1..Len(s) : s[j] = s[k] => j = k
\* the position (from 1) of the first occurrence of x in s
FirstIndex(s, x) == CHOOSE k \in 1..Len(s) : s[k] = x /\ \A j \in 1..(k - 1) : s[j] # x
Terminal == {SUCCESS, FAILED, CANCELLED}
\* the call is between its start and its return
InCall == pc \notin {"idle", "return"}
\* candidates whose verification has been started: the call of _verify_password is
\* made, or is the next thing the strategy does
VerifStarted == nVerified + (IF pc \in {"dict_verify", "bf_verify"} THEN 1 ELSE 0)

(***************************************************************************)
(* C1.  recover() with authorization_confirmed = false returns Failed with *)
(* attempts = 0 and the "authorization not confirmed" message, starts no   *)
(* strategy and verifies no candidate on any kind of target, and leaves    *)
(* the engine's running flag, cancel flag and attempt counter as they were.*)
(***************************************************************************)
C1_Step ==
    (pc = "idle" /\ pc' # "idle" /\ ~authorization_confirmed')
    => /\ pc' = "return"
       /\ ret'.status = FAILED
       /\ ret'.attempts = 0
       /\ ret'.error_message = MsgNotAuthorized
       /\ nVerified' = 0 /\ tried' = <<>> /\ started' = <<>>
       /\ UNCHANGED <<running, cancel_flag, attempts>>

C1_UnauthorizedRefused ==
    /\ [][C1_Step]_vars
    /\ [](~authorization_confirmed => (pc \in {"idle", "return"} /\ nVerified = 0 /\ started = <<>>))

\* a refused call on a file target, on an engine that an earlier call left with a
\* non-zero counter and a set flag
C1_Witness ==
    /\ pc = "return" /\ ~authorization_confirmed
    /\ ret.status = FAILED /\ ret.error_message = MsgNotAuthorized
    /\ target.target_type = "backup_file"
    /\ attempts > 0 /\ cancel_flag

(***************************************************************************)
(* C2.  A Dictionary strategy that runs to its end (not cancelled, no      *)
(* exception) over a wordlist holding the true password, first at index i  *)
(* (from 0), ends in Success with that password, method_used Dictionary    *)
(* and attempts = i + 1, having verified exactly the candidates 0..i, and  *)
(* recover() returns that result.                                          *)
(***************************************************************************)
DictionaryEnded ==
    /\ pc = "method_done" /\ started # <<>> /\ Last(started) = DICTIONARY
    /\ method_result.status # CANCELLED

IsDictionaryMatch(r) ==
    /\ r.status = SUCCESS
    /\ r.password = target.secret
    /\ r.method_used = DICTIONARY
    /\ r.attempts = FirstIndex(wordlist, target.secret)
    /\ tried = SubSeq(wordlist, 1, FirstIndex(wordlist, target.secret))

C2_DictionaryFirstMatch ==
    /\ (DictionaryEnded /\ target.secret \in Range(wordlist)) => IsDictionaryMatch(method_result)
    /\ (pc = "return" /\ method_result.status = SUCCESS) => ret = method_result
    /\ (pc = "return" /\ ret.status = SUCCESS /\ ret.method_used = DICTIONARY)
         => (target.secret \in Range(wordlist) /\ IsDictionaryMatch(ret))

\* a match that is neither the first nor the last word of the list
C2_Witness ==
    /\ pc = "return" /\ ret.status = SUCCESS /\ ret.method_used = DICTIONARY
    /\ ret.attempts >= 2 /\ Len(wordlist) > ret.attempts

(***************************************************************************)
(* C3.  A BruteForce strategy that ends exhausted (no candidate matched,   *)
(* the cap not hit) has verified exactly sum_{L=m..n} |C|^L candidates,    *)
(* without duplicates, every candidate of length L before any of length    *)
(* L+1, and within one length in product order, the rightmost character    *)
(* varying fastest.                                                        *)
(***************************************************************************)
BruteForceEnded ==
    pc = "method_done" /\ started # <<>> /\ Last(started) = BRUTEFORCE

BruteForceExhausted ==
    BruteForceEnded /\ method_result.error_message = MsgBfExhausted

DistinctChars(cs) == \A j, k \in 1..Len(cs) : CharAt(cs, j) = CharAt(cs, k) => j = k
IndexOfChar(cs, ch) == CHOOSE k \in 1..Len(cs) : CharAt(cs, k) = ch
\* a comes before b (of the same length) in the lexicographic order the charset gives
LexLess(cs, a, b) ==
    \E k \in 1..Len(a) :
        /\ \A j \in 1..(k - 1) : CharAt(a, j) = CharAt(b, j)
        /\ IndexOfChar(cs, CharAt(a, k)) < IndexOfChar(cs, CharAt(b, k))
AscendingLength(s) == \A j, k \in 1..Len(s) : j < k => Len(s[j]) <= Len(s[k])
ProductOrder(cs, s) ==
    \A j \in 1..(Len(s) - 1) : Len(s[j]) = Len(s[j + 1]) => LexLess(cs, s[j], s[j + 1])
CountOfLength(s, n) == Cardinality({j \in 1..Len(s) : Len(s[j]) = n})

C3_BruteForceEnumeration ==
    BruteForceExhausted
    => /\ Len(tried) = TotalPossible(charset, min_length, max_length)
       /\ NoDuplicates(tried)
       /\ AscendingLength(tried)
       /\ ProductOrder(charset, tried)

\* What the enumeration does for every charset: the count and the ascending lengths
\* hold, |C| being the length of the charset string; the candidates are distinct and
\* in product order when the characters of the charset are pairwise distinct.
BruteForceEnumeratesProduct ==
    /\ BruteForceExhausted
       => /\ Len(tried) = TotalPossible(charset, min_length, max_length)
          /\ \A n \in min_length..max_length : CountOfLength(tried, n) = Pow(Len(charset), n)
          /\ \A j \in 1..Len(tried) : Len(tried[j]) \in min_length..max_length
          /\ AscendingLength(tried)
          /\ DistinctChars(charset) => (NoDuplicates(tried) /\ ProductOrder(charset, tried))
          /\ (charset = "01" /\ min_length = 1 /\ max_length = 2)
                => tried = <<"0", "1", "00", "01", "10", "11">>
    /\ (BruteForceEnded /\ method_result.status = FAILED
          /\ TotalPossible(charset, min_length, max_length) <= max_attempts)
       => method_result.error_message = MsgBfExhausted

(***************************************************************************)
(* C4.  Whenever a poll of the cancellation flag finds it set during an    *)
(* authorized recover(), recover() returns status Cancelled.               *)
(***************************************************************************)
C4_CancelObservedReturnsCancelled ==
    (pc = "return" /\ sawCancel) => ret.status = CANCELLED

(***************************************************************************)
(* C5.  Once the flag is set in a running recover() (after its start-up    *)
(* reset), no further candidate verification is started and no further     *)
(* strategy is started; a verification in flight completes; and when a     *)
(* poll has seen the flag, the attempts recover() reports is the number of *)
(* verifications started.                                                  *)
(***************************************************************************)
C5_Step ==
    /\ (cancel_flag /\ InCall /\ pc # "reset")
         => (VerifStarted' = VerifStarted /\ started' = started)
    /\ (pc \in {"dict_verify", "bf_verify"} /\ pc' # pc) => nVerified' = nVerified + 1

C5_CancelStopsVerification ==
    /\ [][C5_Step]_vars
    /\ []((pc = "return" /\ sawCancel) => ret.attempts = nVerified)

\* the flag seen after three dictionary words
C5_Witness ==
    /\ pc = "return" /\ sawCancel /\ ret.attempts = 3
    /\ Last(started) = DICTIONARY

(***************************************************************************)
(* C6.  Every result returned with status Success carries a non-empty      *)
(* password and a non-null method_used.                                    *)
(***************************************************************************)
\* the claim as it stands
C6_Original ==
    (pc = "return" /\ ret.status = SUCCESS)
    => (ret.password # None /\ ret.password # "" /\ ret.method_used # None)

\* amended: the password is non-null and the method is set; the password is empty
\* only when Dictionary or BruteForce found that the target accepts the empty password
C6_SuccessCarriesPassword ==
    (pc = "return" /\ ret.status = SUCCESS)
    => /\ ret.password # None
       /\ ret.method_used \in RecoveryMethod
       /\ ret.password = ""
            => (ret.method_used \in {DICTIONARY, BRUTEFORCE} /\ VerifyPassword(target, ""))
       /\ ret.method_used \in {DICTIONARY, BRUTEFORCE} => VerifyPassword(target, ret.password)

C6_Witness ==
    /\ pc = "return" /\ ret.status = SUCCESS
    /\ ret.password = "" /\ ret.method_used = BRUTEFORCE

(***************************************************************************)
(* C7.  recover() returns one of Success, Failed, Cancelled, never Pending *)
(* or Running; its own result is Running while the strategies run; and     *)
(* is_running() is true exactly from the start of an authorized recover()  *)
(* to its return, on every path.                                           *)
(***************************************************************************)
C7_StateMachine ==
    /\ running <=> InCall
    /\ pc = "return" => ret.status \in Terminal
    /\ (InCall /\ pc # "reset") => result.status = RUNNING
    /\ pc = "idle" => ret = NotReturned

\* the return after an exception
C7_Witness ==
    /\ pc = "return" /\ exc # None /\ ~running /\ ret.status = FAILED

(***************************************************************************)
(* C8.  For every outcome of an authorized recover() the attempts of the   *)
(* returned result is the number of candidate verifications performed in   *)
(* the call, and its duration is that of the whole call.                   *)
(***************************************************************************)
C8_AttemptsCountAll ==
    (pc = "return" /\ authorization_confirmed)
    => /\ ret.attempts = nVerified
       /\ \/ ret.duration = "call"
          \/ ret.duration = "strategy" /\ Len(started) = 1

(***************************************************************************)
(* C9.  The strategies are started in the order of config.methods, the     *)
(* next one only after the one before ended without success; the first     *)
(* Success is returned with no later strategy started; and when every      *)
(* strategy has failed, Failed is returned with the summary message.       *)
(***************************************************************************)
StrategyPcs ==
    {"file_parse", "dict_load", "dict_poll", "dict_verify", "bf_init", "bf_length",
     "bf_poll", "bf_verify", "vuln_lookup", "vuln_loop", "method_done", "except"}

C9_StrategiesInOrder ==
    /\ Len(started) <= Len(methods)
    /\ started = SubSeq(methods, 1, Len(started))
    /\ pc \in StrategyPcs => Len(started) = idx
    /\ (pc = "loop" /\ idx > 1)
         => (Len(started) = idx - 1 /\ method_result.status \in {FAILED, CANCELLED})
    /\ (pc = "return" /\ ret.status = SUCCESS)
         => (started # <<>> /\ ret.method_used = Last(started) /\ ret = method_result)
    /\ (pc = "return" /\ authorization_confirmed /\ exc = None /\ ~sawCancel
          /\ ret.status # SUCCESS)
         => /\ started = methods
            /\ ret.status = FAILED
            /\ ret.error_message = MsgAllExhausted

\* two strategies, the second one started after the first failed, and succeeding
C9_Witness ==
    /\ pc = "return" /\ Len(started) = 2 /\ ret.status = SUCCESS
    /\ started = <<DICTIONARY, BRUTEFORCE>>

(***************************************************************************)
(* C10.  BruteForce never verifies more than config.max_attempts           *)
(* candidates; when the cap stops it before the search space is exhausted  *)
(* it fails with the "max attempts" message, and with the "exhausted"      *)
(* message only when every candidate was verified.                         *)
(***************************************************************************)
InBruteForce ==
    /\ started # <<>> /\ Last(started) = BRUTEFORCE
    /\ pc \in {"bf_length", "bf_poll", "bf_verify", "method_done"}

C10_MaxAttemptsCap ==
    /\ InBruteForce => (Len(tried) <= max_attempts /\ bf_attempts <= max_attempts)
    /\ (BruteForceEnded /\ method_result.status = FAILED)
         => /\ (Len(tried) < TotalPossible(charset, min_length, max_length))
                 <=> method_result.error_message = MsgMaxAttempts
            /\ (Len(tried) = TotalPossible(charset, min_length, max_length))
                 <=> method_result.error_message = MsgBfExhausted
            /\ method_result.error_message = MsgMaxAttempts => Len(tried) = max_attempts

C10_Witness ==
    /\ BruteForceEnded /\ method_result.error_message = MsgMaxAttempts
    /\ Len(tried) = 2 /\ max_attempts = 2 /\ charset = Digits

(***************************************************************************)
(* The audit trail: AuditEntry, its hash and its JSON form.                *)
(* A dict (target, details) is a sequence of items in insertion order.  A  *)
(* digest is a one-element tuple holding the data it was computed from, so *)
(* that two digests are equal exactly when their data are (sha256 without  *)
(* collisions); None is the empty tuple.                                   *)
(***************************************************************************)
StrKey(t) == [kind |-> "str", text |-> t]
IntKey(t) == [kind |-> "int", text |-> t]
Item(key, value) == [k |-> key, v |-> value]

\* the key texts of the model in the order Python compares str (by code point)
KeyTexts == <<"10", "9", "identifier", "ip", "method", "model", "password_hash",
              "requested_action", "type", "vendor">>
\* the int a key of kind int is
IntValue(t) == IF t = "9" THEN 9 ELSE 10
\* sort_keys=True compares the keys themselves: ints as numbers, strs as text
Rank(key) == IF key.kind = "int" THEN IntValue(key.text)
             ELSE CHOOSE n \in 1..Len(KeyTexts) : KeyTexts[n] = key.text
SortKeys(d) ==
    LET items == {d[n] : n \in 1..Len(d)}
    IN [j \in 1..Len(d) |->
          CHOOSE x \in items :
              Cardinality({y \in items : Rank(y.k) < Rank(x.k)}) = j - 1]
\* json.dumps(d, sort_keys=True): the keys sorted, then written as text
CanonicalJson(d) ==
    LET srt == SortKeys(d)
    IN [j \in 1..Len(d) |-> <<srt[j].k.text, srt[j].v>>]
\* json.dump(d): the keys written as text, in insertion order
JsonDump(d) == [j \in 1..Len(d) |-> <<d[j].k.text, d[j].v>>]
\* json.loads: every key of an object is a str
JsonLoads(js) == [j \in 1..Len(js) |-> Item(StrKey(js[j][1]), js[j][2])]

\* AuditEntry.compute_hash
compute_hash(entry) ==
    << [timestamp |-> entry.timestamp, event_id |-> entry.event_id, user |-> entry.user,
        machine_id |-> entry.machine_id, action |-> entry.action,
        target |-> CanonicalJson(entry.target), result |-> entry.result,
        details |-> CanonicalJson(entry.details), duration_ms |-> entry.duration_ms,
        previous_hash |-> entry.previous_hash] >>

\* json.dump(asdict(entry), f): one line of a log file.  form tells what has become of
\* the line's text since: "ok", "ws" (white space between two tokens changed),
\* "broken" (no longer one JSON object with the fields of AuditEntry)
WriteLine(entry) ==
    [form |-> "ok",
     json |-> [entry EXCEPT !.target = JsonDump(entry.target),
                            !.details = JsonDump(entry.details)]]
\* AuditEntry(**json.loads(line))
ReadLine(line) ==
    [line.json EXCEPT !.target = JsonLoads(line.json.target),
                      !.details = JsonLoads(line.json.details)]
Parses(line) == line.form # "broken"

\* datetime.now().strftime('%Y-%m-%d'): the local calendar day
LocalDay == (clock + tz) \div 2
\* datetime.utcnow(): the timestamp of an entry
UtcNow == clock


(***************************************************************************)
(* The helpers that build the arguments of log().                          *)
(***************************************************************************)
LogArgs(action, tgt, res, details, duration_ms) ==
    [action |-> action, target |-> tgt, result |-> res, details |-> details,
     duration_ms |-> duration_ms]

log_password_recovery(target_type, target_id, vendor, method, success, duration_ms, password_hash) ==
    LogArgs("password_recovery",
            <<Item(StrKey("type"), target_type), Item(StrKey("identifier"), target_id),
              Item(StrKey("vendor"), vendor)>>,
            IF success THEN "success" ELSE "failure",
            <<Item(StrKey("method"), method), Item(StrKey("password_hash"), password_hash)>>,
            <<duration_ms>>)

log_plc_connection(ip, vendor, model, success) ==
    LogArgs("plc_connect",
            <<Item(StrKey("type"), "plc"), Item(StrKey("ip"), ip),
              Item(StrKey("vendor"), vendor), Item(StrKey("model"), model)>>,
            IF success THEN "success" ELSE "failure", <<>>, <<>>)

log_authorization(action, acknowledged) ==
    LogArgs("authorization_acknowledgment",
            <<Item(StrKey("requested_action"), action)>>,
            IF acknowledged THEN "acknowledged" ELSE "declined", <<>>, <<>>)

\* a caller's own log() call whose details hold a dict keyed by register numbers (ints);
\* json.dumps sorts the keys of every level alike, the model keeps that level only
RegisterDetails == <<Item(IntKey("9"), "1"), Item(IntKey("10"), "2")>>
\* the arguments the threads of the model call log() with
CallerArgs ==
    {log_plc_connection("10.0.0.1", "siemens", "S7-1200", TRUE),
     LogArgs("tag_write", <<Item(StrKey("type"), "plc")>>, "success", RegisterDetails, <<>>)}

(***************************************************************************)
(* verify_integrity and _initialize_log: the readers of the log files.     *)
(***************************************************************************)
\* "for line_num, line in enumerate(f, 1)" from line n on; an exception leaves the file
RECURSIVE VerifyLines(_, _, _, _, _)
VerifyLines(lines, n, day, prev, res) ==
    IF n > Len(lines) THEN [prev |-> prev, res |-> res]
    ELSE IF ~Parses(lines[n])
    THEN [prev |-> prev,
          res |-> [res EXCEPT !.valid = FALSE, !.errors = Append(@, day)]]
    ELSE LET entry == ReadLine(lines[n])
             counted == [res EXCEPT !.total_entries = @ + 1]
             chained ==
                 IF entry.previous_hash # prev
                 THEN [counted EXCEPT !.valid = FALSE,
                          !.broken_chains = Append(@, [file |-> day, line |-> n,
                                                       expected |-> prev,
                                                       found |-> entry.previous_hash])]
                 ELSE counted
             hashed ==
                 IF compute_hash(entry) # entry.entry_hash
                 THEN [chained EXCEPT !.valid = FALSE,
                          !.modified_entries = Append(@, [file |-> day, line |-> n,
                                                          event_id |-> entry.event_id])]
                 ELSE chained
         IN VerifyLines(lines, n + 1, day, entry.entry_hash, hashed)

\* "for log_file in sorted(self.log_dir.glob('audit_*.jsonl'))" from day d on
RECURSIVE VerifyFiles(_, _, _, _)
VerifyFiles(fs, d, prev, res) ==
    IF d > MaxDay THEN res
    ELSE IF fs[d] = <<>> THEN VerifyFiles(fs, d + 1, prev, res)
    ELSE LET r == VerifyLines(fs[d], 1, d, prev, res)
         IN VerifyFiles(fs, d + 1, r.prev, r.res)

verify_integrity(fs) ==
    VerifyFiles(fs, 0, NoHash,
                [valid |-> TRUE, total_entries |-> 0, broken_chains |-> <<>>,
                 modified_entries |-> <<>>, errors |-> <<>>, done |-> TRUE])

\* _initialize_log's loop over the lines of today's file; an exception ends it
RECURSIVE LoadLastHash(_, _, _)
LoadLastHash(lines, n, h) ==
    IF n > Len(lines) \/ ~Parses(lines[n]) THEN h
    ELSE LoadLastHash(lines, n + 1, lines[n].json.entry_hash)

\* _initialize_log: self._last_hash after construction on day today
InitialLastHash(fs, today) ==
    IF fs[today] # <<>> THEN LoadLastHash(fs[today], 1, NoHash) ELSE NoHash


(***************************************************************************)
(* AuditLogger.log, one thread t at a time inside "with self._lock".       *)
(***************************************************************************)
\* threading.Lock: "with self._lock" enters when no thread holds the lock
LockFree(l) == l = 0

\* a thread calls log(action, target, result, details, duration_ms); the model follows
\* the trail up to the edit of a stored line and no further.  Idle threads are alike, so
\* of two idle threads the one with the smaller number is the one that calls
LogCall(t) ==
    /\ tpc[t] = "idle"
    /\ \A o \in Threads : o < t => tpc[o] # "idle"
    /\ nLogCalls < MaxLogCalls
    /\ tampered = NoPlace
    /\ \E a \in CallerArgs : targs' = [targs EXCEPT ![t] = a]
    /\ tpc' = [tpc EXCEPT ![t] = "acquire"]
    /\ nLogCalls' = nLogCalls + 1
    /\ UNCHANGED <<files, loggerVars, tentry, clockVars, next_event_id, verify_result,
                   appended, dir_last_hash, nLoggers, nWriteFailed, tampered>>

\* "with self._lock:"
LogAcquire(t) ==
    /\ tpc[t] = "acquire"
    /\ LockFree(lock)
    /\ lock' = t
    /\ tpc' = [tpc EXCEPT ![t] = "create"]
    /\ UNCHANGED <<files, last_hash, current_log_file, targs, tentry, clockVars,
                   next_event_id, verify_result, auditHist>>

\* lines 167-178: the entry is created with previous_hash = self._last_hash
LogCreate(t) ==
    /\ tpc[t] = "create"
    /\ tentry' = [tentry EXCEPT ![t] =
          [timestamp |-> UtcNow, event_id |-> next_event_id,
           user |-> "user", machine_id |-> "machine",
           action |-> targs[t].action, target |-> targs[t].target,
           result |-> targs[t].result, details |-> targs[t].details,
           duration_ms |-> targs[t].duration_ms,
           previous_hash |-> last_hash, entry_hash |-> NoHash]]
    /\ next_event_id' = next_event_id + 1
    /\ tpc' = [tpc EXCEPT ![t] = "hash"]
    /\ UNCHANGED <<files, loggerVars, targs, clockVars, verify_result, auditHist>>

\* lines 181-182: entry.entry_hash and self._last_hash
LogHash(t) ==
    /\ tpc[t] = "hash"
    /\ LET h == compute_hash(tentry[t])
       IN /\ tentry' = [tentry EXCEPT ![t].entry_hash = h]
          /\ last_hash' = h
    /\ tpc' = [tpc EXCEPT ![t] = "write"]
    /\ UNCHANGED <<files, current_log_file, lock, targs, clockVars, next_event_id,
                   verify_result, auditHist>>

\* _write_entry, then the lock is left: the line is appended to the file of the local
\* day, or open()/write() raises OSError and log() raises with it
LogWrite(t) ==
    /\ tpc[t] = "write"
    /\ current_log_file' = LocalDay
    /\ \E ok \in BOOLEAN :
         IF ok
         THEN /\ files' = [files EXCEPT ![LocalDay] = Append(@, WriteLine(tentry[t]))]
              /\ appended' = Append(appended, tentry[t])
              /\ verify_result' = NotVerified
              /\ nWriteFailed' = nWriteFailed
         ELSE /\ nWriteFailed' = nWriteFailed + 1
              /\ UNCHANGED <<files, appended, verify_result>>
    /\ lock' = 0
    /\ tpc' = [tpc EXCEPT ![t] = "idle"]
    /\ targs' = [targs EXCEPT ![t] = NoArgs]
    /\ tentry' = [tentry EXCEPT ![t] = NoEntry]
    /\ UNCHANGED <<last_hash, clockVars, next_event_id, nLogCalls, dir_last_hash, nLoggers,
                   tampered>>

(***************************************************************************)
(* The environment of the logger: time, restarts, readers, tampering.      *)
(***************************************************************************)
\* half a day passes
Tick ==
    /\ clock < 2 * MaxDay
    /\ (clock + 1 + tz) \div 2 <= MaxDay
    /\ clock' = clock + 1
    /\ UNCHANGED <<files, loggerVars, threadVars, tz, next_event_id, verify_result,
                   auditHist>>

\* the lines of the directory in the order verify_integrity reads them
AllLines(fs) ==
    LET RECURSIVE From(_)
        From(d) == IF d > MaxDay THEN <<>> ELSE fs[d] \o From(d + 1)
    IN From(0)

\* the process ends and a new one constructs AuditLogger(log_dir) over the directory
\* the one before has written to: __init__
Construct ==
    /\ \A t \in Threads : tpc[t] = "idle"
    /\ AllLines(files) # <<>>
    /\ nLoggers < MaxLoggers
    /\ last_hash' = InitialLastHash(files, LocalDay)
    /\ current_log_file' = LocalDay
    /\ lock' = 0
    /\ nLoggers' = nLoggers + 1
    /\ appended' = <<>>
    /\ dir_last_hash' = IF AllLines(files) = <<>> THEN NoHash
                        ELSE AllLines(files)[Len(AllLines(files))].json.entry_hash
    /\ UNCHANGED <<files, threadVars, clockVars, next_event_id, verify_result, nLogCalls,
                   nWriteFailed, tampered>>

\* a caller runs verify_integrity(); it reads the files only, which a thread inside log()
\* has not touched before its write, so the model runs it between the calls of log()
Verify ==
    /\ ~verify_result.done
    /\ \A t \in Threads : tpc[t] = "idle"
    /\ verify_result' = verify_integrity(files)
    /\ UNCHANGED <<files, loggerVars, threadVars, clockVars, next_event_id, auditHist>>

\* what a change of one byte of a stored line does to the line
TamperKinds == {"result", "entry_hash", "white_space", "syntax"}
Tampered(line, kind) ==
    CASE kind = "result" -> [line EXCEPT !.json.result = "forged"]
      [] kind = "entry_hash" -> [line EXCEPT !.json.entry_hash = NoHash]
      [] kind = "white_space" -> [line EXCEPT !.form = "ws"]
      [] kind = "syntax" -> [line EXCEPT !.form = "broken"]

\* someone with access to the directory edits one stored line, once
Tamper ==
    /\ tampered = NoPlace
    /\ \A t \in Threads : tpc[t] = "idle"
    /\ \E d \in Days : \E n \in 1..Len(files[d]) : \E kind \in TamperKinds :
         /\ files' = [files EXCEPT ![d][n] = Tampered(@, kind)]
         /\ tampered' = <<d, n, kind>>
    /\ verify_result' = NotVerified
    /\ UNCHANGED <<loggerVars, threadVars, clockVars, next_event_id, nLogCalls, appended,
                   dir_last_hash, nLoggers, nWriteFailed>>

\* the entries stored after line n of the file of day d
EntriesAfter(fs, d, n) ==
    n < Len(fs[d]) \/ \E later \in Days : later > d /\ fs[later] # <<>>
\* the lines of a file without line n
Without(lines, n) == SubSeq(lines, 1, n - 1) \o SubSeq(lines, n + 1, Len(lines))

\* someone with access to the directory deletes one stored line, or one whole day file
\* (line 0 of the place), that later entries follow, once
Delete ==
    /\ tampered = NoPlace
    /\ \A t \in Threads : tpc[t] = "idle"
    /\ \E d \in Days :
         \/ \E n \in 1..Len(files[d]) :
              /\ EntriesAfter(files, d, n)
              /\ files' = [files EXCEPT ![d] = Without(@, n)]
              /\ tampered' = <<d, n, "deleted">>
         \/ /\ files[d] # <<>>
            /\ EntriesAfter(files, d, Len(files[d]))
            /\ files' = [files EXCEPT ![d] = <<>>]
            /\ tampered' = <<d, 0, "deleted_file">>
    /\ verify_result' = NotVerified
    /\ UNCHANGED <<loggerVars, threadVars, clockVars, next_event_id, nLogCalls, appended,
                   dir_last_hash, nLoggers, nWriteFailed>>

AuditInit == RecoveryIdle /\ FrontIdle /\ FactoryIdle /\ ParserIdle /\ ProgressIdle /\ MonitorIdle /\ ScanIdle /\ BatchIdle /\ GetLoggerIdle /\ StartIdle /\ \E z \in {0, 1} : AuditStart(z)

AuditNext ==
    \/ (\E t \in Threads : LogCall(t)) /\ UNCHANGED notAuditVars
    \/ (\E t \in Threads : LogAcquire(t)) /\ UNCHANGED notAuditVars
    \/ (\E t \in Threads : LogCreate(t)) /\ UNCHANGED notAuditVars
    \/ (\E t \in Threads : LogHash(t)) /\ UNCHANGED notAuditVars
    \/ (\E t \in Threads : LogWrite(t)) /\ UNCHANGED notAuditVars
    \/ Tick /\ UNCHANGED notAuditVars
    \/ Construct /\ UNCHANGED notAuditVars
    \/ Verify /\ UNCHANGED notAuditVars
    \/ Tamper /\ UNCHANGED notAuditVars
    \/ Delete /\ UNCHANGED notAuditVars

AuditSpec == AuditInit /\ [][AuditNext]_vars

(***************************************************************************)
(* The stored entries of the directory, in the order they are read.        *)
(***************************************************************************)
\* entry k's previous_hash is entry k-1's entry_hash, and the first one's is None
Chained(lines) ==
    /\ lines # <<>> => lines[1].json.previous_hash = NoHash
    /\ \A k \in 2..Len(lines) : lines[k].json.previous_hash = lines[k - 1].json.entry_hash

(***************************************************************************)
(* C11.  After any sequence of log() calls on one AuditLogger, day         *)
(* rollovers included, every stored entry's previous_hash is the           *)
(* entry_hash of the entry stored before it, and the first entry written   *)
(* into an empty directory has previous_hash None.                         *)
(***************************************************************************)
C11_ChainOfOneLogger ==
    (nLoggers = 1 /\ tampered = NoPlace) => Chained(AllLines(files))

\* what does hold: the chain of one logger is whole as long as no append has failed
ChainedWhileAppendsSucceed ==
    (nLoggers = 1 /\ tampered = NoPlace /\ nWriteFailed = 0) => Chained(AllLines(files))

(***************************************************************************)
(* C12.  For a directory whose content was produced only by log() calls    *)
(* and never modified afterwards, verify_integrity() reports valid = True, *)
(* no broken chain, no modified entry, and as many entries as were         *)
(* written.                                                                *)
(***************************************************************************)
C12_UnmodifiedVerifies ==
    (verify_result.done /\ tampered = NoPlace)
    => /\ verify_result.valid
       /\ verify_result.broken_chains = <<>>
       /\ verify_result.modified_entries = <<>>
       /\ verify_result.total_entries = Len(AllLines(files))

\* the entries whose details are keyed by str only, written by one logger whose appends
\* all succeeded, do verify
VerifiesWhenStrKeyed ==
    (verify_result.done /\ tampered = NoPlace /\ nLoggers = 1 /\ nWriteFailed = 0
       /\ \A k \in 1..Len(appended) : \A j \in 1..Len(appended[k].details) :
             appended[k].details[j].k.kind = "str")
    => /\ verify_result.valid
       /\ verify_result.total_entries = Len(AllLines(files))

(***************************************************************************)
(* C13.  After any change of one byte or field of a stored entry,          *)
(* verify_integrity() returns valid = False and reports that entry (file,  *)
(* line, event id) in modified_entries, and it still examines the entries  *)
(* that follow the changed one.                                            *)
(***************************************************************************)
\* the edited line is in modified_entries
ReportedModified ==
    \E m \in 1..Len(verify_result.modified_entries) :
        verify_result.modified_entries[m] =
            [file |-> tampered[1], line |-> tampered[2],
             event_id |-> files[tampered[1]][tampered[2]].json.event_id]

C13_TamperReported ==
    (verify_result.done /\ tampered # NoPlace /\ tampered[3] \in TamperKinds)
    => /\ ~verify_result.valid
       /\ ReportedModified
       /\ verify_result.total_entries >= Len(AllLines(files)) - 1

\* what does hold: a changed field of a line that is still a JSON object with the fields
\* of AuditEntry is reported, and every entry is examined
ChangedFieldReported ==
    (verify_result.done /\ tampered # NoPlace /\ tampered[3] \in {"result", "entry_hash"})
    => /\ ~verify_result.valid
       /\ ReportedModified
       /\ verify_result.total_entries = Len(AllLines(files))

(***************************************************************************)
(* C14.  The first entry written by an AuditLogger constructed over a      *)
(* directory that already holds entries has previous_hash equal to the     *)
(* entry_hash of the last entry of the newest file, be that file today's   *)
(* or an earlier day's.                                                    *)
(***************************************************************************)
C14_RestartContinuesChain ==
    (nLoggers > 1 /\ appended # <<>> /\ tampered = NoPlace)
    => appended[1].previous_hash = dir_last_hash

(***************************************************************************)
(* C15.  Under every interleaving of log() calls of several threads on one *)
(* AuditLogger the steps from reading the last hash to the append are one  *)
(* critical section: the stored entries form one linear chain in file      *)
(* order and no two of them carry the same previous_hash.                  *)
(***************************************************************************)
\* the threads between "with self._lock:" entered and left
InCritical == {t \in Threads : tpc[t] \in {"create", "hash", "write"}}

C15_OneCriticalSection ==
    /\ Cardinality(InCritical) <= 1
    /\ \A t \in InCritical : lock = t
    /\ \A j, k \in 1..Len(appended) : j # k =>
           appended[j].previous_hash # appended[k].previous_hash
    /\ \A k \in 2..Len(appended) :
           appended[k].previous_hash = appended[k - 1].entry_hash

\* what does hold: the lock lets one thread at a time through, and no two stored entries
\* carry the same previous_hash
MutualExclusion ==
    /\ Cardinality(InCritical) <= 1
    /\ \A t \in InCritical : lock = t
    /\ \A j, k \in 1..Len(appended) : j # k =>
           appended[j].previous_hash # appended[k].previous_hash

(***************************************************************************)
(* The entry paths: the GUI's handlers, the commands of cli_main, and a    *)
(* caller of RecoveryEngine.recover.  One handler runs at a time (the Qt   *)
(* event loop, the process of the command); its log() calls run as thread  *)
(* 1 of the audit trail.                                                   *)
(***************************************************************************)
\* the passwords a recovery can come up with
RecoveredPasswords == {"1234", "s3cret"}
\* what recover(target, config, authorization_confirmed) returns: the refusal, a
\* strategy's Success with its password, Failed or Cancelled
RecoverReturns(auth) ==
    IF Refused(auth) THEN {ResultOf(FAILED, MsgNotAuthorized)}
    ELSE {RecoveryResult(SUCCESS, pw, m, 1, "strategy", None, "empty") :
             pw \in RecoveredPasswords, m \in {DICTIONARY}}
         \cup {RecoveryResult(FAILED, None, None, 0, "call", MsgAllExhausted, "empty"),
               RecoveryResult(CANCELLED, None, None, 0, "call", None, "empty")}

NoTarget == [target_type |-> None, vendor |-> None, file_path |-> None]
\* RecoveryTarget(...) as _start_recovery builds it from the widgets
GuiTarget(index, text, vendor) ==
    [target_type |-> IF index = 0 THEN "backup_file" ELSE "online_plc",
     vendor |-> vendor,
     file_path |-> IF index = 0 THEN text ELSE None]
\* RecoveryTarget(...) as the recover command builds it from its arguments
CliTarget(file, vendor) ==
    [target_type |-> "backup_file", vendor |-> vendor, file_path |-> file]

\* (variant for C16: the recovered password is handed over as password_hash)
RecoveryPasswordHash_Cleartext(res) == res.password
\* the password_hash argument of _start_recovery's log_password_recovery call
RecoveryPasswordHash(res) == None

\* the log_password_recovery call of _start_recovery
RecoveryLogArgs(tgt, res, duration_ms) ==
    log_password_recovery(tgt.target_type,
                          IF Truthy(tgt.file_path) THEN tgt.file_path ELSE "",
                          tgt.vendor,
                          IF res.method_used # None THEN res.method_used ELSE "none",
                          res.status = SUCCESS,
                          duration_ms,
                          RecoveryPasswordHash(res))

\* a request a handler has served: what was asked, how it ended, what recover()
\* returned, and the log() calls the handler made for it
Served(req, outcome, res) ==
    [path |-> req.path, kind |-> req.kind, tgt |-> req.tgt,
     duration_ms |-> req.duration_ms, calls |-> req.calls,
     outcome |-> outcome, res |-> res]
Request(path, kind, tgt, calls) ==
    [path |-> path, kind |-> kind, tgt |-> tgt, duration_ms |-> 0, calls |-> calls]

\* the audit variables a handler leaves alone when it calls log()
auditRest == <<files, loggerVars, tentry, clockVars, next_event_id, verify_result,
               auditHist>>
\* self._audit_logger.<helper>(...): the handler waits for log() to return or raise
CallLog(args) ==
    /\ tpc[1] = "idle"
    /\ targs' = [targs EXCEPT ![1] = args]
    /\ tpc' = [tpc EXCEPT ![1] = "acquire"]
    /\ fmark' = nWriteFailed
\* log() has come back, and whether it raised
LogReturned == tpc[1] = "idle"
LogRaised == nWriteFailed > fmark
NoLogCall == UNCHANGED <<tpc, targs, fmark>>

FileTexts == {"", "plant.s7p"}

\* MainWindow/RecoveryWidget._start_recovery up to log_authorization: without the three
\* acknowledgments a warning is shown and the handler returns
GuiStartRecovery ==
    /\ fpc = "idle" /\ Len(requests) < MaxRequests
    /\ \E checked \in BOOLEAN :
         IF ~checked
         THEN /\ requests' = Append(requests,
                     Served(Request("gui", "recover", NoTarget, <<>>), "refused",
                            NotReturned))
              /\ NoLogCall
              /\ UNCHANGED <<fpc, freq, fresult>>
         ELSE /\ \E index \in {0, 1}, text \in FileTexts :
                   freq' = Request("gui", "recover", GuiTarget(index, text, "siemens"),
                                   <<log_authorization("password_recovery", TRUE)>>)
              /\ CallLog(log_authorization("password_recovery", TRUE))
              /\ fpc' = "gui_authorized"
              /\ UNCHANGED <<fresult, requests>>
    /\ UNCHANGED auditRest

\* _start_recovery from the method check boxes to log_password_recovery: no method
\* selected ends the handler; else recover() runs and its outcome is logged
GuiRecover ==
    /\ fpc = "gui_authorized" /\ LogReturned
    /\ IF LogRaised
       THEN /\ requests' = Append(requests, Served(freq, "raised", NotReturned))
            /\ fpc' = "idle" /\ freq' = NoRequest
            /\ NoLogCall
            /\ UNCHANGED fresult
       ELSE \E selected \in BOOLEAN :
              IF ~selected
              THEN /\ requests' = Append(requests, Served(freq, "no_methods", NotReturned))
                   /\ fpc' = "idle" /\ freq' = NoRequest
                   /\ NoLogCall
                   /\ UNCHANGED fresult
              ELSE \E res \in RecoverReturns(TRUE), ms \in {10} :
                     /\ fresult' = res
                     /\ freq' = [freq EXCEPT !.duration_ms = ms,
                                   !.calls = Append(@, RecoveryLogArgs(freq.tgt, res, ms))]
                     /\ CallLog(RecoveryLogArgs(freq.tgt, res, ms))
                     /\ fpc' = "gui_logging"
                     /\ UNCHANGED requests
    /\ UNCHANGED auditRest

\* the rest of _start_recovery: the result is shown
GuiShowResult ==
    /\ fpc = "gui_logging" /\ LogReturned
    /\ requests' = Append(requests, Served(freq, fresult.status, fresult))
    /\ fpc' = "idle" /\ freq' = NoRequest /\ fresult' = NotReturned
    /\ NoLogCall
    /\ UNCHANGED auditRest

\* MainWindow._connect_plc: DeviceFactory.create returns a device and the connection is
\* logged, or it raises and a message box is shown
GuiConnect ==
    /\ fpc = "idle" /\ Len(requests) < MaxRequests
    /\ \E ok \in BOOLEAN :
         IF ok
         THEN /\ freq' = Request("gui", "connect", NoTarget,
                            <<log_plc_connection("10.0.0.1", "siemens", "S7-1200", TRUE)>>)
              /\ CallLog(log_plc_connection("10.0.0.1", "siemens", "S7-1200", TRUE))
              /\ fpc' = "gui_connected"
              /\ UNCHANGED <<fresult, requests>>
         ELSE /\ requests' = Append(requests,
                     Served(Request("gui", "connect", NoTarget, <<>>), FAILED,
                            NotReturned))
              /\ NoLogCall
              /\ UNCHANGED <<fpc, freq, fresult>>
    /\ UNCHANGED auditRest

\* the rest of _connect_plc's try block
GuiConnected ==
    /\ fpc = "gui_connected" /\ LogReturned
    /\ requests' = Append(requests, Served(freq, SUCCESS, NotReturned))
    /\ fpc' = "idle" /\ freq' = NoRequest
    /\ NoLogCall
    /\ UNCHANGED <<fresult, auditRest>>

\* cli_main, command recover: without --confirm it prints and exits; else
\* RecoveryEngine().recover(target, config, authorization_confirmed=True)
CliRecover ==
    /\ fpc = "idle" /\ Len(requests) < MaxRequests
    /\ \E confirm \in BOOLEAN, file \in {"plant.s7p"} :
         IF ~confirm
         THEN requests' = Append(requests,
                  Served(Request("cli", "recover", NoTarget, <<>>), "refused", NotReturned))
         ELSE \E res \in RecoverReturns(TRUE) :
                requests' = Append(requests,
                    Served(Request("cli", "recover", CliTarget(file, "siemens"), <<>>),
                           res.status, res))
    /\ NoLogCall
    /\ UNCHANGED <<fpc, freq, fresult, auditRest>>

\* cli_main, commands connect, read and write: connect(args.ip, vendor=args.vendor)
CliConnect ==
    /\ fpc = "idle" /\ Len(requests) < MaxRequests
    /\ \E ok \in BOOLEAN :
         requests' = Append(requests,
             Served(Request("cli", "connect", NoTarget, <<>>),
                    IF ok THEN SUCCESS ELSE FAILED, NotReturned))
    /\ NoLogCall
    /\ UNCHANGED <<fpc, freq, fresult, auditRest>>

\* a program calls RecoveryEngine.recover itself
EngineRecover ==
    /\ fpc = "idle" /\ Len(requests) < MaxRequests
    /\ \E auth \in BOOLEAN, file \in {"plant.s7p"} : \E res \in RecoverReturns(auth) :
         requests' = Append(requests,
             Served(Request("engine", "recover", CliTarget(file, "siemens"), <<>>),
                    IF Refused(auth) THEN "refused" ELSE res.status, res))
    /\ NoLogCall
    /\ UNCHANGED <<fpc, freq, fresult, auditRest>>

notFrontVars == <<recoveryVars, factoryVars, parserVars, progressVars, monitorVars, scanVars, batchVars, getLoggerVars, startVars>>

FrontNext ==
    \/ GuiStartRecovery /\ UNCHANGED notFrontVars
    \/ GuiRecover /\ UNCHANGED notFrontVars
    \/ GuiShowResult /\ UNCHANGED notFrontVars
    \/ GuiConnect /\ UNCHANGED notFrontVars
    \/ GuiConnected /\ UNCHANGED notFrontVars
    \/ CliRecover /\ UNCHANGED notFrontVars
    \/ CliConnect /\ UNCHANGED notFrontVars
    \/ EngineRecover /\ UNCHANGED notFrontVars
    \/ LogAcquire(1) /\ UNCHANGED notAuditVars
    \/ LogCreate(1) /\ UNCHANGED notAuditVars
    \/ LogHash(1) /\ UNCHANGED notAuditVars
    \/ LogWrite(1) /\ UNCHANGED notAuditVars

FrontSpec == Init /\ [][FrontNext]_vars

(***************************************************************************)
(* C16.  No stored audit entry holds a recovered password in cleartext,    *)
(* and two recovery runs that differ only in the recovered password are    *)
(* logged with arguments that differ at most in the password_hash item.    *)
(***************************************************************************)
\* the values of one stored line
ValuesOf(line) ==
    {line.json.action, line.json.result}
      \cup {line.json.target[j][2] : j \in 1..Len(line.json.target)}
      \cup {line.json.details[j][2] : j \in 1..Len(line.json.details)}

WithoutPasswordHash(d) == SelectSeq(d, LAMBDA it : it.k.text # "password_hash")
DifferAtMostInPasswordHash(a, b) ==
    /\ a.action = b.action /\ a.target = b.target /\ a.result = b.result
    /\ a.duration_ms = b.duration_ms
    /\ WithoutPasswordHash(a.details) = WithoutPasswordHash(b.details)

\* the requests in which the GUI ran recover() and logged its outcome
GuiRuns ==
    {k \in 1..Len(requests) :
        /\ requests[k].path = "gui" /\ requests[k].kind = "recover"
        /\ requests[k].outcome \in Terminal}

C16_NoCleartextPassword ==
    /\ \A d \in Days : \A n \in 1..Len(files[d]) :
           ValuesOf(files[d][n]) \cap RecoveredPasswords = {}
    /\ \A k \in GuiRuns : \A pw \in RecoveredPasswords \cup {None} :
           DifferAtMostInPasswordHash(
               requests[k].calls[2],
               RecoveryLogArgs(requests[k].tgt, [requests[k].res EXCEPT !.password = pw],
                               requests[k].duration_ms))

\* two runs on the same target that recovered different passwords, both logged and stored
C16_Witness ==
    /\ GuiRuns = {1, 2}
    /\ requests[1].tgt = requests[2].tgt
    /\ requests[1].res.password = "1234" /\ requests[2].res.password = "s3cret"
    /\ Len(AllLines(files)) = 4
    /\ AllLines(files)[2].json.action = "password_recovery"
    /\ AllLines(files)[2].json.result = "success"

(***************************************************************************)
(* C17.  Every recovery request refused for want of authorization          *)
(* (recover() with authorization_confirmed = False, the recover command    *)
(* without --confirm, the GUI start without all acknowledgments) is        *)
(* followed by an audit entry recording the authorization as declined,     *)
(* and no attempt entry is written for it.                                 *)
(***************************************************************************)
RefusedRequests == {k \in 1..Len(requests) : requests[k].outcome = "refused"}
\* the log() calls of request k with the given action
CallsOf(k, action) ==
    SelectSeq(requests[k].calls, LAMBDA a : a.action = action)

C17_RefusalAudited ==
    \A k \in RefusedRequests :
        /\ \E j \in 1..Len(requests[k].calls) :
              requests[k].calls[j] = log_authorization("password_recovery", FALSE)
        /\ CallsOf(k, "password_recovery") = <<>>

\* what does hold: a refused request makes no log() call at all, so no attempt entry
RefusedLogsNothing ==
    \A k \in RefusedRequests : requests[k].calls = <<>>

(***************************************************************************)
(* C18.  Every authorized recover() run and every connection attempt,      *)
(* successful or not, is followed by an audit entry recording the action   *)
(* and its outcome, on every entry path (engine call, CLI, GUI).           *)
(***************************************************************************)
RanRequests ==
    {k \in 1..Len(requests) : requests[k].outcome \in Terminal}
ActionOf(kind) == IF kind = "recover" THEN "password_recovery" ELSE "plc_connect"
ResultOfOutcome(outcome) == IF outcome = SUCCESS THEN "success" ELSE "failure"

C18_EveryActionAudited ==
    \A k \in RanRequests :
        \E j \in 1..Len(requests[k].calls) :
            /\ requests[k].calls[j].action = ActionOf(requests[k].kind)
            /\ requests[k].calls[j].result = ResultOfOutcome(requests[k].outcome)

\* what does hold: the GUI logs every recover() run it makes and every connection it
\* has made
GuiRunsAndConnectionsAudited ==
    \A k \in RanRequests :
        (requests[k].path = "gui" /\ (requests[k].kind = "recover"
                                      \/ requests[k].outcome = SUCCESS))
        => \E j \in 1..Len(requests[k].calls) :
              /\ requests[k].calls[j].action = ActionOf(requests[k].kind)
              /\ requests[k].calls[j].result = ResultOfOutcome(requests[k].outcome)

(***************************************************************************)
(* DeviceFactory: the registry, create() and vendor detection.             *)
(***************************************************************************)
SIEMENS == "siemens"
ALLEN_BRADLEY == "allen_bradley"
DELTA == "delta"
OMRON == "omron"
UNKNOWN == "unknown"
\* the values of the enum Vendor
Vendor == {SIEMENS, ALLEN_BRADLEY, DELTA, OMRON, UNKNOWN}
\* the vendors a driver class exists for
DriverVendors == {SIEMENS, ALLEN_BRADLEY, DELTA, OMRON}

\* the vendor strings callers pass, and str.lower() on them
VendorArgs == {"siemens", "Siemens", "allen_bradley", "delta", "omron", "unknown",
               "mitsubishi"}
Lower(s) == IF s = "Siemens" THEN "siemens" ELSE s

\* (variant for C19: the Delta probe runs before the Omron probe)
ProbeOrder_DeltaThird == <<SIEMENS, ALLEN_BRADLEY, DELTA, OMRON>>
\* the order in which _detect_vendor calls the probes
ProbeOrder == <<SIEMENS, ALLEN_BRADLEY, OMRON, DELTA>>

\* head followed by zero bytes up to n bytes
Bytes(head, n) == [j \in 1..n |-> IF j <= Len(head) THEN head[j] ELSE 0]
\* what an endpoint sends back to a probe: nothing, a cut-off TPKT header, a COTP
\* connection confirm, a List Identity reply, a FINS frame, a Modbus frame
Responses ==
    {<<>>, <<3, 0>>, Bytes(<<3, 0, 0, 22>>, 22), Bytes(<<99>>, 26),
     Bytes(<<70, 73, 78, 83>>, 16), Bytes(<<0, 1, 0, 0, 0, 5, 1, 171>>, 9)}

\* the test each probe makes on the bytes it received
ProbeAccepts(v, resp) ==
    CASE v = SIEMENS -> Len(resp) >= 4 /\ SubSeq(resp, 1, 2) = <<3, 0>>
      [] v = ALLEN_BRADLEY -> Len(resp) >= 24 /\ resp[1] = 99
      [] v = OMRON -> Len(resp) >= 16 /\ SubSeq(resp, 1, 4) = <<70, 73, 78, 83>>
      [] v = DELTA -> Len(resp) >= 8 /\ SubSeq(resp, 3, 4) = <<0, 0>>

\* how connect() of the driver class of vendor v can end: True, False after an exception
\* (the except branch stores str(e) in _last_error), or False handed on from the
\* client library (get_connected(), FINSClient.connect(), ModbusTcpClient.connect()),
\* where _last_error stays None.  LogixDriver.open() fails by raising only
DriverConnects(v) ==
    {[connected |-> TRUE, last_error |-> None],
     [connected |-> FALSE, last_error |-> "timed out"]}
    \cup (IF v = ALLEN_BRADLEY THEN {}
          ELSE {[connected |-> FALSE, last_error |-> None]})

\* "{x}" in an f-string: str(x)
Format(x) == IF x = None THEN "None" ELSE x

Ended(kind, v, text) == [kind |-> kind, vendor |-> v, text |-> text]

\* DeviceFactory.register_driver(vendor, driver_class)
RegisterDriver ==
    /\ cpc = "idle"
    /\ \E v \in DriverVendors \ drivers : drivers' = drivers \cup {v}
    /\ UNCHANGED <<cpc, cvarg, cvendor, detected, driver, cret, sock, probed, nInstances,
                   nConnects>>

\* create(ip, vendor): a vendor string is turned into the enum, which raises ValueError
\* for a string that is no value of Vendor
CreateCall ==
    /\ cpc = "idle"
    /\ \E v \in VendorArgs \cup {None} :
         /\ cvarg' = v
         /\ IF v = None
            THEN /\ cpc' = "probe" /\ cvendor' = None /\ cret' = NotEnded
            ELSE IF Lower(v) \in Vendor
            THEN /\ cpc' = "lookup" /\ cvendor' = Lower(v) /\ cret' = NotEnded
            ELSE /\ cpc' = "ended" /\ cvendor' = None
                 /\ cret' = Ended("ValueError", v, "is not a valid Vendor")
    /\ detected' = None /\ driver' = NoDriver
    /\ probed' = <<>> /\ nInstances' = 0 /\ nConnects' = 0
    /\ UNCHANGED <<drivers, sock>>

\* a probe has returned b for vendor v: _detect_vendor returns v, goes on to the next
\* probe, or returns UNKNOWN after the last one
Verdict(v, b) ==
    /\ probed' = Append(probed, [vendor |-> v, accepted |-> b])
    /\ IF b THEN detected' = v /\ cpc' = "detected"
       ELSE IF Len(probed) + 1 = Len(ProbeOrder)
       THEN detected' = UNKNOWN /\ cpc' = "detected"
       ELSE detected' = detected /\ cpc' = "probe"

\* a probe up to its request: socket(), settimeout(), connect(), send()
ProbeSend ==
    /\ cpc = "probe"
    /\ sock' = sock + 1
    /\ \E ok \in BOOLEAN : cpc' = IF ok THEN "recv" ELSE "raised"
    /\ UNCHANGED <<drivers, cvarg, cvendor, detected, driver, cret, probed, nInstances,
                   nConnects>>

\* recv(): the answer arrives, the socket is closed and the answer is tested; or the
\* timeout raises
ProbeRecv ==
    /\ cpc = "recv"
    /\ \E answered \in BOOLEAN :
         IF answered
         THEN /\ sock' = sock - 1
              /\ \E resp \in Responses :
                   Verdict(ProbeOrder[Len(probed) + 1],
                           ProbeAccepts(ProbeOrder[Len(probed) + 1], resp))
         ELSE /\ cpc' = "raised"
              /\ UNCHANGED <<sock, detected, probed>>
    /\ UNCHANGED <<drivers, cvarg, cvendor, driver, cret, nInstances, nConnects>>

\* "except Exception: return False": the frame ends, and with it the socket object,
\* which CPython closes when its last reference goes
ProbeExcept ==
    /\ cpc = "raised"
    /\ sock' = sock - 1
    /\ Verdict(ProbeOrder[Len(probed) + 1], FALSE)
    /\ UNCHANGED <<drivers, cvarg, cvendor, driver, cret, nInstances, nConnects>>

\* create() after _detect_vendor returned
Detected ==
    /\ cpc = "detected"
    /\ IF detected = UNKNOWN
       THEN /\ cpc' = "ended" /\ cvendor' = cvendor
            /\ cret' = Ended("ValueError", UNKNOWN, "Could not detect PLC vendor at")
       ELSE /\ cpc' = "lookup" /\ cvendor' = detected /\ cret' = cret
    /\ UNCHANGED <<drivers, cvarg, detected, driver, sock, probed, nInstances, nConnects>>

\* the registry is asked for the driver class, and the class is instantiated
Lookup ==
    /\ cpc = "lookup"
    /\ IF cvendor \notin drivers
       THEN /\ cpc' = "ended"
            /\ cret' = Ended("ValueError", cvendor, "No driver registered for vendor:")
            /\ UNCHANGED <<driver, nInstances>>
       ELSE /\ cpc' = "connect"
            /\ driver' = [vendor |-> cvendor, last_error |-> None, connected |-> FALSE]
            /\ nInstances' = nInstances + 1
            /\ cret' = cret
    /\ UNCHANGED <<drivers, cvarg, cvendor, detected, sock, probed, nConnects>>

\* (variant for C21: the result of connect() is not looked at)
ConnectFailed_Never(o) == FALSE
\* "if not driver.connect(ip, **connect_kwargs):"
ConnectFailed(o) == ~o.connected

\* driver.connect(ip, **connect_kwargs), and the return or the ConnectionError
Connect ==
    /\ cpc = "connect"
    /\ nConnects' = nConnects + 1
    /\ \E o \in DriverConnects(driver.vendor) :
         /\ driver' = [driver EXCEPT !.last_error = o.last_error,
                                     !.connected = o.connected]
         /\ cret' = IF ConnectFailed(o)
                    THEN Ended("ConnectionError", driver.vendor, Format(o.last_error))
                    ELSE Ended("returned", driver.vendor, None)
    /\ cpc' = "ended"
    /\ UNCHANGED <<drivers, cvarg, cvendor, detected, sock, probed, nInstances>>

\* the caller has the driver or the exception
CreateEnd ==
    /\ cpc = "ended"
    /\ cpc' = "idle"
    /\ UNCHANGED <<drivers, cvarg, cvendor, detected, driver, cret, sock, probed,
                   nInstances, nConnects>>

notFactoryVars == <<recoveryVars, auditVars, frontVars, parserVars, progressVars, monitorVars, scanVars, batchVars, getLoggerVars, startVars>>

FactoryNext ==
    \/ RegisterDriver /\ UNCHANGED notFactoryVars
    \/ CreateCall /\ UNCHANGED notFactoryVars
    \/ ProbeSend /\ UNCHANGED notFactoryVars
    \/ ProbeRecv /\ UNCHANGED notFactoryVars
    \/ ProbeExcept /\ UNCHANGED notFactoryVars
    \/ Detected /\ UNCHANGED notFactoryVars
    \/ Lookup /\ UNCHANGED notFactoryVars
    \/ Connect /\ UNCHANGED notFactoryVars
    \/ CreateEnd /\ UNCHANGED notFactoryVars

FactorySpec == Init /\ [][FactoryNext]_vars

(***************************************************************************)
(* C19.  Vendor detection runs the probes one at a time in the order       *)
(* Siemens, Allen-Bradley, Omron, Delta; it returns the first vendor whose *)
(* probe succeeds and runs no later probe; it returns Unknown exactly when *)
(* all four probes failed; and a probe that failed leaves nothing behind   *)
(* (no open socket).                                                       *)
(***************************************************************************)
InProbe == cpc \in {"recv", "raised"}

UnsupportedVendorRaised ==
    cpc = "ended" =>
        /\ (cvarg = None /\ detected = UNKNOWN) => cret.kind = "ValueError"
        /\ (cvarg # None /\ Lower(cvarg) \notin Vendor) => cret.kind = "ValueError"
        /\ (cvendor # None /\ cvendor \notin drivers) => cret.kind = "ValueError"
        /\ cret.kind = "ValueError" => (nInstances = 0 /\ nConnects = 0)

C20_CreateErrors ==
    /\ UnsupportedVendorRaised
    /\ (cpc = "ended" /\ cret.kind = "ConnectionError") =>
           /\ driver.last_error # None
           /\ cret.text = driver.last_error

(***************************************************************************)
(* C21.  One create() call instantiates at most one driver and calls its   *)
(* connect at most once; it instantiates no driver when the vendor cannot  *)
(* be resolved or has no registered driver; and it returns a driver only   *)
(* if that driver's connect returned True.                                 *)
(***************************************************************************)
C21_OneDriverOneConnect ==
    /\ nInstances <= 1 /\ nConnects <= nInstances
    /\ nInstances = 1 <=> driver # NoDriver
    /\ cpc \in {"probe", "recv", "raised", "detected", "lookup"} => nInstances = 0
    /\ cpc = "connect" => (nInstances = 1 /\ nConnects = 0)
    /\ cpc = "ended" =>
           /\ (cvendor = None \/ cvendor \notin drivers) => nInstances = 0
           /\ cret.kind = "ValueError" => nInstances = 0
           /\ cret.kind \in {"returned", "ConnectionError"} =>
                  (nInstances = 1 /\ nConnects = 1)
           /\ cret.kind = "returned" => (driver.connected /\ driver.vendor = cvendor)
           /\ cret.kind = "ConnectionError" => ~driver.connected

\* a create() that resolved the vendor by detection and whose driver failed to connect
C21_Witness ==
    /\ cpc = "ended" /\ cret.kind = "ConnectionError" /\ cvarg = None
    /\ nInstances = 1 /\ nConnects = 1 /\ ~driver.connected

(***************************************************************************)
(* C22.  The Vulnerability strategy executes the exploits whose vendor and *)
(* model lists match the target's vendor and model as case-insensitive     *)
(* substrings, one at a time in registration order; an exploit that raises *)
(* is passed over and the next one is still executed; the strategy         *)
(* succeeds at the first exploit that reports success with a password and  *)
(* executes no later one; when every matching exploit was executed without *)
(* success it fails with "No vulnerabilities successfully exploited" (with *)
(* no matching exploit at all: "No known vulnerabilities").                *)
(***************************************************************************)
\* the Vulnerability strategy is in its loop, or has just returned to recover()
InVulnerability ==
    \/ pc = "vuln_loop"
    \/ pc = "method_done" /\ started # <<>> /\ Last(started) = VULNERABILITY
\* one string is part of the other once both are folded to lower case
SubstringMatch(listed, given) ==
    LET l == str_lower(listed)
        g == str_lower(given)
        Part(a, b) == \E k \in 0..(Len(b) - Len(a)) : SubSeq(b, k + 1, k + Len(a)) = a
    IN Part(l, g) \/ Part(g, l)
\* the registered exploits that match the target, in registration order
MatchingExploits ==
    LET Match(x) ==
          /\ \E k \in 1..Len(affected_vendors(x)) : SubstringMatch(affected_vendors(x)[k], target_vendor)
          /\ \E k \in 1..Len(affected_models(x)) : SubstringMatch(affected_models(x)[k], target_model)
    IN SelectSeq(ExploitRegistry, Match)
ExecutedNames == [k \in 1..Len(executed) |-> executed[k].name]
C22_ExploitsInOrderUntilSuccess ==
    InVulnerability =>
        /\ Len(executed) <= Len(MatchingExploits)
        /\ ExecutedNames = SubSeq(MatchingExploits, 1, Len(executed))
        /\ \A k \in 1..(Len(executed) - 1) : executed[k].ending # "success"
        /\ pc = "vuln_loop" => \A k \in 1..Len(executed) : executed[k].ending # "success"
        /\ pc = "method_done" =>
             /\ method_result.status \in {SUCCESS, FAILED, CANCELLED}
             /\ method_result.status = SUCCESS <=>
                  executed # <<>> /\ Last(executed).ending = "success"
             /\ method_result.status = SUCCESS => method_result.password # None
             /\ method_result.status = FAILED =>
                  /\ ExecutedNames = MatchingExploits
                  /\ method_result.error_message =
                        IF MatchingExploits = <<>> THEN MsgNoExploits ELSE MsgNoExploitWorked
             /\ method_result.status = CANCELLED => sawCancel

\* a target named in other case and by a part of the vendor name: all three exploits
\* match; the first raised, the second reported no success, the third succeeded
C22_Witness ==
    /\ pc = "method_done"
    /\ started # <<>> /\ Last(started) = VULNERABILITY
    /\ target_vendor = <<"S", "I", "E">>
    /\ ExecutedNames = ExploitRegistry
    /\ executed[1].ending = "raised"
    /\ executed[2].ending = "no_success"
    /\ executed[3].ending = "success"
    /\ method_result.status = SUCCESS

(***************************************************************************)
(* C23.  The engine invokes execute(target) of an exploit only after that  *)
(* exploit's check_applicable(target) was evaluated for the same target    *)
(* and returned true: an exploit that is not applicable to the target is   *)
(* never executed.  (The device of an online target is taken to report the *)
(* target's model and whichever firmware suits the exploit best.)          *)
(***************************************************************************)
C23_ExecutedOnlyIfApplicable ==
    InVulnerability =>
        \A k \in 1..Len(executed) :
            \E fw \in Firmwares :
                check_applicable(executed[k].name, HasDevice(target), target_model, fw)

(***************************************************************************)
(* C24.  When FileParse finds only a hash candidate and no clear-text      *)
(* password, FileParse fails, recovery goes on to the next strategy, and   *)
(* the candidate (hash, algorithm, salt) is retained in the details of the *)
(* RecoveryResult recover() returns.  (Stated where FileParse was the      *)
(* last strategy of the call, so that its result is still at hand.)        *)
(***************************************************************************)
\* recover() has its return value and the last strategy was a FileParse that found a
\* hash only
ReturnsAfterHashOnly ==
    /\ pc = "return"
    /\ started # <<>> /\ Last(started) = FILE_PARSE
    /\ method_result.status = FAILED
    /\ method_result.error_message = MsgHashOnly
    /\ method_result.details = "parse"
C24_HashCandidateRetained ==
    ReturnsAfterHashOnly => ret.details = "parse"

(***************************************************************************)
(* C25.  A failure inside one strategy (a corrupt or unsupported archive,  *)
(* a wordlist that cannot be loaded, an exception while a candidate is     *)
(* verified or while a progress report is delivered) fails only that       *)
(* strategy: every later strategy is still attempted, and recover()        *)
(* returns a result instead of raising.  So a call that was authorized,    *)
(* saw no cancel request and found no password has started every method.   *)
(***************************************************************************)
C25_FailureFailsOnlyItsStrategy ==
    (/\ pc = "return"
     /\ authorization_confirmed
     /\ ~sawCancel
     /\ ret.status # SUCCESS) =>
        /\ ret.status = FAILED
        /\ started = methods

(***************************************************************************)
(* C26.  Verification dispatches on the kind of target (the driver's       *)
(* authenticate for a live device, the hash comparison for a file), and    *)
(* during a recovery against a file target the archive is opened and       *)
(* scanned at most once: later candidates are checked against the hash,    *)
(* salt and algorithm of the first scan, without the archive being opened  *)
(* again.                                                                  *)
(***************************************************************************)
\* the times the archive has been opened by the verifications of the running call
ArchiveOpens == nVerified * OpensPerVerify(target)
C26_ArchiveOpenedOnce ==
    InCall => ArchiveOpens <= 1

(***************************************************************************)
(* TIAPortalPasswordParser._extract_project_password: the scan of a        *)
(* project archive for the protection hash.                                *)
(*                                                                         *)
(* An entry of the archive is a protection XML file (name with             *)
(* "protection" or "security", ending in .xml), a binary companion (.plf   *)
(* or .dat) or any other file.  The content of a companion is the sequence *)
(* of its windows, each junk, a plausible salted SHA-256 record or a       *)
(* plausible 8-byte hash; the position of a window stands for its offset.  *)
(***************************************************************************)
XmlKinds == {"malformed", "not_hex", "no_hash", "explicit"}
Windows == {"junk", "sha1", "sha2", "crc1"}
ShaWindows == {"sha1", "sha2"}
CrcWindows == {"crc1"}
ArchiveEntries ==
    {[kind |-> "xml", xml |-> x, content |-> <<>>] : x \in XmlKinds}
    \cup {[kind |-> "bin", xml |-> None, content |-> c] : c \in SeqsUpTo(Windows, MaxWindows)}
    \cup {[kind |-> "other", xml |-> None, content |-> <<>>]}
Archives == SeqsUpTo(ArchiveEntries, MaxEntries)

\* _parse_protection_xml(content): the dict of the elements found ({} on a ParseError),
\* or the ValueError of bytes.fromhex
NoInfo == [raises |-> FALSE, found |-> FALSE, hash |-> None, algorithm |-> None, salt |-> None]
parse_protection_xml(x) ==
    CASE x = "malformed" -> NoInfo
      [] x = "no_hash" -> NoInfo
      [] x = "not_hex" -> [NoInfo EXCEPT !.raises = TRUE]
      [] x = "explicit" -> [raises |-> FALSE, found |-> TRUE, hash |-> "xml_hash",
                            algorithm |-> "xml_algorithm", salt |-> "xml_salt"]

\* _extract_hash_from_binary(content): the first salted SHA-256 record of the content,
\* failing that the first 8-byte hash, failing that None
NoCandidate == [hash |-> None, salt |-> None, algorithm |-> None, offset |-> 0 - 1]
FirstOffset(content, S) ==
    CHOOSE k \in 1..Len(content) : content[k] \in S /\ \A j \in 1..(k - 1) : content[j] \notin S
extract_hash_from_binary(content) ==
    IF \E k \in 1..Len(content) : content[k] \in ShaWindows
    THEN LET k == FirstOffset(content, ShaWindows)
         IN [hash |-> content[k], salt |-> "salt16", algorithm |-> "SHA256_SALTED", offset |-> k - 1]
    ELSE IF \E k \in 1..Len(content) : content[k] \in CrcWindows
    THEN LET k == FirstOffset(content, CrcWindows)
         IN [hash |-> content[k], salt |-> None, algorithm |-> "CRC_MODIFIED", offset |-> k - 1]
    ELSE NoCandidate

\* "if protection_info: result.update(protection_info)"; an exception is passed over
AfterXml(r, entry) ==
    LET info == parse_protection_xml(entry.xml)
    IN IF entry.kind = "xml" /\ ~info.raises /\ info.found
       THEN [r EXCEPT !.hash = info.hash, !.algorithm = info.algorithm, !.salt = info.salt,
                      !.protected = TRUE]
       ELSE r
\* "if hash_info: result['hash'] = hash_info['hash'] ..."
AfterBinary(r, entry) ==
    LET hash_info == extract_hash_from_binary(entry.content)
    IN IF entry.kind = "bin" /\ hash_info # NoCandidate
       THEN [r EXCEPT !.hash = hash_info.hash, !.algorithm = hash_info.algorithm,
                      !.salt = hash_info.salt, !.protected = TRUE]
       ELSE r

\* _extract_project_password(zf) is called on an opened archive
ExtractCall ==
    /\ zpc = "idle"
    /\ \E a \in Archives : zf' = a
    /\ zn' = 1
    /\ zresult' = NoProtection
    /\ zpc' = "scan"

\* one turn of "for name in zf.namelist()"
ScanEntry ==
    /\ zpc = "scan"
    /\ zn <= Len(zf)
    /\ zresult' = AfterBinary(AfterXml(zresult, zf[zn]), zf[zn])
    /\ zn' = zn + 1
    /\ UNCHANGED <<zpc, zf>>

\* "return result"
ExtractReturn ==
    /\ zpc = "scan"
    /\ zn > Len(zf)
    /\ zpc' = "returned"
    /\ UNCHANGED <<zf, zn, zresult>>

notParserVars == <<recoveryVars, auditVars, frontVars, factoryVars, progressVars, monitorVars, scanVars, batchVars, getLoggerVars, startVars>>
ParserNext ==
    \/ ExtractCall /\ UNCHANGED notParserVars
    \/ ScanEntry /\ UNCHANGED notParserVars
    \/ ExtractReturn /\ UNCHANGED notParserVars

ParserSpec == Init /\ [][ParserNext]_vars

(***************************************************************************)
(* C27.  For a project archive the extractor uses the explicit hash, salt  *)
(* and algorithm of the protection XML whenever they are present and well  *)
(* formed, whatever the binary companions contain and whatever the order   *)
(* of the entries; only otherwise does it fall back to the scan of the     *)
(* companions, and then it returns the first plausible candidate (earliest *)
(* companion, lowest offset).                                              *)
(***************************************************************************)
ExplicitEntries == {k \in 1..Len(zf) : zf[k].kind = "xml" /\ zf[k].xml = "explicit"}
CandidateEntries ==
    {k \in 1..Len(zf) : zf[k].kind = "bin" /\ extract_hash_from_binary(zf[k].content) # NoCandidate}
Protection(h, a, s) == zresult.hash = h /\ zresult.algorithm = a /\ zresult.salt = s
C27_ExplicitMetadataFirst ==
    zpc = "returned" =>
        IF ExplicitEntries # {}
        THEN Protection("xml_hash", "xml_algorithm", "xml_salt")
        ELSE IF CandidateEntries # {}
        THEN LET k == CHOOSE n \in CandidateEntries : \A m \in CandidateEntries : n <= m
                 first == extract_hash_from_binary(zf[k].content)
             IN Protection(first.hash, first.algorithm, first.salt)
        ELSE Protection(None, None, None)

(***************************************************************************)
(* The progress reports of _try_dictionary and _try_bruteforce: the        *)
(* current_password of the RecoveryProgress handed to the callback.  A     *)
(* candidate is the sequence of its characters.                            *)
(***************************************************************************)
CandidateChars == {"a", "b"}
Candidates == SeqsUpTo(CandidateChars, MaxCandidate)
Stars == <<"*", "*", "*", "*">>
\* password[:n]
Prefix(s, n) == SubSeq(s, 1, IF Len(s) < n THEN Len(s) ELSE n)
\* password[:4] + "****"
DictCurrentPassword(password) == Prefix(password, 4) \o Stars
\* password[:2] + "****"
BfCurrentPassword(password) == Prefix(password, 2) \o Stars

\* _try_dictionary hands RecoveryProgress(method=DICTIONARY, current_password=...) to the
\* callback
ReportDictionary ==
    \E password \in Candidates :
        /\ progress_method' = DICTIONARY
        /\ progress_candidate' = password
        /\ current_password' = DictCurrentPassword(password)

\* _try_bruteforce hands RecoveryProgress(method=BRUTEFORCE, current_password=...) to the
\* callback
ReportBruteForce ==
    \E password \in Candidates :
        /\ progress_method' = BRUTEFORCE
        /\ progress_candidate' = password
        /\ current_password' = BfCurrentPassword(password)

notProgressVars == <<recoveryVars, auditVars, frontVars, factoryVars, parserVars, monitorVars, scanVars, batchVars, getLoggerVars, startVars>>
ProgressNext ==
    \/ ReportDictionary /\ UNCHANGED notProgressVars
    \/ ReportBruteForce /\ UNCHANGED notProgressVars

ProgressSpec == Init /\ [][ProgressNext]_vars

(***************************************************************************)
(* C28.  Every RecoveryProgress handed to the progress callback carries an *)
(* obfuscated candidate that never discloses the full candidate, for       *)
(* candidates of every length, in Dictionary and in BruteForce: the        *)
(* reported text never starts with the whole of a (non-empty) candidate.   *)
(***************************************************************************)
C28_ProgressHidesCandidate ==
    (progress_method # None /\ progress_candidate # <<>>) =>
        SubSeq(current_password, 1, Len(progress_candidate)) # progress_candidate

(***************************************************************************)
(* UnifiedPLC.monitor: the polling thread and the stop function.           *)
(***************************************************************************)
TagValues == {100, 110}
\* device.read_tag(tag): a TagValue, or an exception
ReadTagOutcomes(t) == {[raises |-> TRUE, obj |-> Nothing],
                       [raises |-> FALSE, obj |-> Obj("TagValue", device_tags[t])]}
\* the attribute .value of an object: a TagValue has one, an int has none
ValueOf(o) ==
    IF o.type = "TagValue" THEN [raises |-> FALSE, obj |-> Obj("int", o.val)]
    ELSE [raises |-> TRUE, obj |-> Nothing]
\* UnifiedPLC.read(tag): "tag_value = self._device.read_tag(tag); return tag_value.value"
read(out) == IF out.raises THEN out ELSE ValueOf(out.obj)

\* "if tag not in last_values or last_values[tag].value != current.value": the answer,
\* or the exception of an attribute that is not there
Changed(known, last, current) ==
    IF ~known THEN [raises |-> FALSE, yes |-> TRUE]
    ELSE IF ValueOf(last).raises \/ ValueOf(current).raises THEN [raises |-> TRUE, yes |-> FALSE]
    ELSE [raises |-> FALSE, yes |-> ValueOf(last).obj # ValueOf(current).obj]

\* monitor(tags, callback, interval_ms): the flag is set, the thread is started
MonitorStart ==
    /\ mon_pc = "idle"
    /\ monitoring_active' = TRUE
    /\ last_values' = [t \in {} |-> Nothing]
    /\ mon_pc' = "while"
    /\ mon_tag' = 1
    /\ UNCHANGED <<device_tags, mon_rounds, mon_last>>

\* "while self._monitoring_active"
MonitorWhile ==
    /\ mon_pc = "while"
    /\ IF monitoring_active
       THEN /\ mon_rounds < MaxRounds
            /\ mon_pc' = "for"
            /\ mon_rounds' = mon_rounds + 1
       ELSE /\ mon_pc' = "ended"
            /\ mon_rounds' = mon_rounds
    /\ mon_tag' = 1
    /\ UNCHANGED <<monitoring_active, last_values, device_tags, mon_last>>

\* one turn of "for tag in tags": the read, the comparison, the callback; an exception
\* anywhere in the turn is passed over
MonitorTag ==
    /\ mon_pc = "for"
    /\ mon_tag <= Len(MonitorTags)
    /\ LET t == MonitorTags[mon_tag]
           known == t \in DOMAIN last_values
           prior == IF known THEN last_values[t] ELSE Nothing
       IN \E out \in ReadTagOutcomes(t) :
            LET current == read(out)
                changed == Changed(known, prior, current.obj)
                calls == ~current.raises /\ ~changed.raises /\ changed.yes
            IN /\ last_values' =
                     IF calls THEN [u \in DOMAIN last_values \cup {t} |->
                                       IF u = t THEN current.obj ELSE last_values[u]]
                     ELSE last_values
               /\ mon_last' = [tag |-> t,
                               read |-> IF out.raises THEN Nothing ELSE out.obj,
                               prior |-> prior,
                               called |-> IF calls THEN current.obj ELSE Nothing]
    /\ mon_tag' = mon_tag + 1
    /\ UNCHANGED <<monitoring_active, mon_pc, device_tags, mon_rounds>>

\* "time.sleep(interval_ms / 1000.0)" once the tags are through
MonitorSleep ==
    /\ mon_pc = "for"
    /\ mon_tag > Len(MonitorTags)
    /\ mon_pc' = "while"
    /\ UNCHANGED <<monitoring_active, mon_tag, last_values, device_tags, mon_rounds, mon_last>>

\* stop_monitoring(), from the caller's thread
StopMonitoring ==
    /\ mon_pc \notin {"idle", "ended"}
    /\ monitoring_active
    /\ monitoring_active' = FALSE
    /\ UNCHANGED <<mon_pc, mon_tag, last_values, device_tags, mon_rounds, mon_last>>

\* the process changes the value of a tag
DeviceChange ==
    /\ mon_pc \notin {"idle", "ended"}
    /\ \E t \in DOMAIN device_tags, v \in TagValues :
         /\ v # device_tags[t]
         /\ device_tags' = [device_tags EXCEPT ![t] = v]
    /\ UNCHANGED <<monitoring_active, mon_pc, mon_tag, last_values, mon_rounds, mon_last>>

notMonitorVars == <<recoveryVars, auditVars, frontVars, factoryVars, parserVars, progressVars, scanVars, batchVars, getLoggerVars, startVars>>
MonitorNext ==
    \/ MonitorStart /\ UNCHANGED notMonitorVars
    \/ MonitorWhile /\ UNCHANGED notMonitorVars
    \/ MonitorTag /\ UNCHANGED notMonitorVars
    \/ MonitorSleep /\ UNCHANGED notMonitorVars
    \/ StopMonitoring /\ UNCHANGED notMonitorVars
    \/ DeviceChange /\ UNCHANGED notMonitorVars

MonitorSpec == Init /\ [][MonitorNext]_vars

(***************************************************************************)
(* C29.  UnifiedPLC.monitor polls every listed tag once per interval and   *)
(* invokes callback(tag, TagValue) on the first successful read of a tag   *)
(* and again each time the tag's value differs from the value last         *)
(* reported for it; a read error on one tag does not stop the polling or   *)
(* the callbacks of the other tags.  Said of the last turn of the loop:    *)
(* a read that succeeded is reported with the TagValue read exactly when   *)
(* the tag was not reported before or its value differs from the reported  *)
(* one, and a read that failed is followed by no callback.                 *)
(***************************************************************************)
C29_CallbackOnFirstReadAndOnChange ==
    mon_last.tag # None =>
        IF mon_last.read = Nothing
        THEN mon_last.called = Nothing
        ELSE LET due == mon_last.prior = Nothing \/ mon_last.prior.val # mon_last.read.val
             IN mon_last.called = (IF due THEN mon_last.read ELSE Nothing)

(***************************************************************************)
(* C30.  The max_attempts cap is global to one recover() call: the total   *)
(* number of candidate verifications over all the strategies of the call   *)
(* (Dictionary and BruteForce together) never exceeds config.max_attempts. *)
(* (Said where BruteForce has read the cap from the config.)               *)
(***************************************************************************)
C30_CapOverWholeCall ==
    InBruteForce => nVerified <= max_attempts

(***************************************************************************)
(* TIAPortalPasswordParser._extract_hash_from_binary on the bytes of a     *)
(* companion: a content is the sequence of its bytes (0..255).             *)
(***************************************************************************)
\* the lengths of the windows: content[i:i+16], content[i+16:i+48], content[i:i+8]
SaltLen == 16
HashLen == 32
ShortLen == 8
\* the thresholds of _looks_like_hash and _looks_like_short_hash
MinLen == 16
MinDistinct == 8
MaxRun == 4
MinShortDistinct == 4

\* Python's content[a:b], for 0 <= a <= b <= len(content)
Slice(s, a, b) == SubSeq(s, a + 1, b)
\* len(set(data))
Distinct(data) == Cardinality({data[k] : k \in 1..Len(data)})
\* max_run of _looks_like_hash: the length of the longest run of one byte (1 at least)
LongestRun(data) ==
    LET RunFrom(k, n) == \A j \in k..(k + n - 1) : data[j] = data[k]
        runs == {n \in 1..Len(data) : \E k \in 1..(Len(data) - n + 1) : RunFrom(k, n)}
    IN IF runs = {} THEN 1 ELSE CHOOSE n \in runs : \A m \in runs : m <= n
looks_like_hash(data) ==
    /\ Len(data) >= MinLen
    /\ Distinct(data) >= MinDistinct
    /\ LongestRun(data) <= MaxRun
looks_like_short_hash(data) ==
    /\ data # [k \in 1..ShortLen |-> 0]
    /\ data # [k \in 1..ShortLen |-> 255]
    /\ Distinct(data) >= MinShortDistinct

\* "for i in range(len(content) - w)": the offsets the loop visits
ScanOffsets(n, w) == 0..(n - w - 1)
LowestOf(S) == CHOOSE x \in S : \A y \in S : x <= y
scan_bytes(content) ==
    LET n == Len(content)
        sha == {k \in ScanOffsets(n, SaltLen + HashLen) :
                  looks_like_hash(Slice(content, k + SaltLen, k + SaltLen + HashLen))}
        crc == {k \in ScanOffsets(n, ShortLen) :
                  looks_like_short_hash(Slice(content, k, k + ShortLen))}
    IN IF sha # {}
       THEN [hash |-> Slice(content, LowestOf(sha) + SaltLen, LowestOf(sha) + SaltLen + HashLen),
             salt |-> Slice(content, LowestOf(sha), LowestOf(sha) + SaltLen),
             algorithm |-> "SHA256_SALTED", offset |-> LowestOf(sha)]
       ELSE IF crc # {}
       THEN [hash |-> Slice(content, LowestOf(crc), LowestOf(crc) + ShortLen),
             salt |-> <<>>, algorithm |-> "CRC_MODIFIED", offset |-> LowestOf(crc)]
       ELSE NoHashInfo

\* the contents drawn: a block of 48 distinct bytes, of 8 distinct bytes or of 48 equal
\* bytes, between two paddings of 0x00 or 0xFF bytes
Blocks == {[k \in 1..48 |-> k], [k \in 1..8 |-> k], [k \in 1..48 |-> 7]}
Padding(n, b) == [k \in 1..n |-> b]
BinContents ==
    {Padding(before, b) \o blk \o Padding(after, b) :
        before \in 0..MaxPad, after \in 0..MaxPad, b \in {0, 255}, blk \in Blocks}

\* _extract_hash_from_binary(content) is called and returns
ScanBinary ==
    \E content \in BinContents :
        /\ bin_content' = content
        /\ bin_result' = scan_bytes(content)

notScanVars == <<recoveryVars, auditVars, frontVars, factoryVars, parserVars, progressVars, monitorVars, batchVars, getLoggerVars, startVars>>
ScanNext ==
    \/ ScanBinary /\ UNCHANGED notScanVars

ScanSpec == Init /\ [][ScanNext]_vars

(***************************************************************************)
(* C31.  The scan of a binary companion examines every offset at which a   *)
(* full window fits (16+32-byte windows at offsets 0..len-48, 8-byte       *)
(* windows at offsets 0..len-8), classifies a position Sha256Salted        *)
(* exactly when its 32-byte window has at least 8 distinct byte values and *)
(* no run of more than 4 identical bytes, considers CrcModified (8 bytes,  *)
(* not all 0x00, not all 0xFF, at least 4 distinct values) only when no    *)
(* Sha256Salted position exists, and returns the lowest qualifying offset. *)
(***************************************************************************)
\* the bytes of bin_content from offset a (from 0) on, n of them
Window(a, n) == [k \in 1..n |-> bin_content[a + k]]
Values(w) == {w[k] : k \in 1..Len(w)}
Sha256SaltedAt(a) ==
    LET w == Window(a + 16, 32)
    IN /\ Cardinality(Values(w)) >= 8
       /\ ~ \E k \in 1..28 : \A j \in k..(k + 4) : w[j] = w[k]
CrcModifiedAt(a) ==
    LET w == Window(a, 8)
    IN /\ Values(w) # {0}
       /\ Values(w) # {255}
       /\ Cardinality(Values(w)) >= 4
C31_ScanEveryOffset ==
    bin_content # <<>> =>
        LET n == Len(bin_content)
            sha == {a \in 0..(n - 48) : Sha256SaltedAt(a)}
            crc == {a \in 0..(n - 8) : CrcModifiedAt(a)}
        IN IF sha # {}
           THEN /\ bin_result.algorithm = "SHA256_SALTED"
                /\ bin_result.offset = LowestOf(sha)
           ELSE IF crc # {}
           THEN /\ bin_result.algorithm = "CRC_MODIFIED"
                /\ bin_result.offset = LowestOf(crc)
           ELSE bin_result = NoHashInfo

(***************************************************************************)
(* PLCDevice.read_tags and PLCDevice.write_tags, the default batched       *)
(* variants of the driver contract.                                        *)
(***************************************************************************)
TagNames == {"Tag1", "Tag2", "Tag3"}
\* the names of a call: for write_tags the keys of a dict, so no name twice
TagLists == {l \in SeqsUpTo(TagNames, MaxTags) : \A j, k \in 1..Len(l) : l[j] = l[k] => j = k}
\* the value the device holds for a tag
HeldValue(name) == CASE name = "Tag1" -> 100 [] name = "Tag2" -> 200 [] name = "Tag3" -> 300

\* read_tags(tag_names) or write_tags(tags) is called
BatchCall ==
    /\ batch_pc = "idle"
    /\ \E op \in {"read", "write"}, l \in TagLists :
         /\ batch_op' = op
         /\ batch_tags' = l
    /\ batch_idx' = 1
    /\ batch_calls' = <<>>
    /\ batch_ret' = <<>>
    /\ batch_pc' = "iterate"

\* one element of "[self.read_tag(name) for name in tag_names]"
ReadTag ==
    /\ batch_pc = "iterate" /\ batch_op = "read"
    /\ batch_idx <= Len(batch_tags)
    /\ batch_calls' = Append(batch_calls, [name |-> batch_tags[batch_idx],
                                           returned |-> HeldValue(batch_tags[batch_idx])])
    /\ batch_ret' = Append(batch_ret, HeldValue(batch_tags[batch_idx]))
    /\ batch_idx' = batch_idx + 1
    /\ UNCHANGED <<batch_pc, batch_op, batch_tags>>

\* one element of "all(self.write_tag(name, value) for name, value in tags.items())":
\* all() asks the generator for the next write and stops at the first falsy one
WriteTag ==
    /\ batch_pc = "iterate" /\ batch_op = "write"
    /\ batch_idx <= Len(batch_tags)
    /\ \E ok \in BOOLEAN :
         /\ batch_calls' = Append(batch_calls, [name |-> batch_tags[batch_idx], returned |-> ok])
         /\ IF ok
            THEN batch_pc' = "iterate" /\ batch_ret' = batch_ret
            ELSE batch_pc' = "returned" /\ batch_ret' = <<FALSE>>
    /\ batch_idx' = batch_idx + 1
    /\ UNCHANGED <<batch_op, batch_tags>>

\* the names are through: the list is returned, or all() returns True
BatchReturn ==
    /\ batch_pc = "iterate"
    /\ batch_idx > Len(batch_tags)
    /\ batch_ret' = IF batch_op = "write" THEN <<TRUE>> ELSE batch_ret
    /\ batch_pc' = "returned"
    /\ UNCHANGED <<batch_op, batch_tags, batch_idx, batch_calls>>

\* the caller has the result
BatchDone ==
    /\ batch_pc = "returned"
    /\ batch_pc' = "idle" /\ batch_op' = None /\ batch_tags' = <<>> /\ batch_idx' = 1
    /\ batch_ret' = <<>> /\ batch_calls' = <<>>

notBatchVars == <<recoveryVars, auditVars, frontVars, factoryVars, parserVars, progressVars, monitorVars, scanVars, getLoggerVars, startVars>>
BatchNext ==
    \/ BatchCall /\ UNCHANGED notBatchVars
    \/ ReadTag /\ UNCHANGED notBatchVars
    \/ WriteTag /\ UNCHANGED notBatchVars
    \/ BatchReturn /\ UNCHANGED notBatchVars
    \/ BatchDone /\ UNCHANGED notBatchVars

BatchSpec == Init /\ [][BatchNext]_vars

(***************************************************************************)
(* C32.  The default write_tags performs one write_tag call for every      *)
(* supplied tag, in order, and returns true exactly when every one of      *)
(* those writes returned true; the default read_tags performs one read_tag *)
(* per requested name and returns the values in request order.             *)
(***************************************************************************)
CalledNames == [k \in 1..Len(batch_calls) |-> batch_calls[k].name]
C32_OneCallPerTag ==
    batch_pc = "returned" =>
        /\ CalledNames = batch_tags
        /\ batch_op = "write" =>
             batch_ret = << \A k \in 1..Len(batch_calls) : batch_calls[k].returned >>
        /\ batch_op = "read" =>
             batch_ret = [k \in 1..Len(batch_tags) |-> HeldValue(batch_tags[k])]

(***************************************************************************)
(* C33.  Audit files are partitioned one per UTC calendar day: every entry *)
(* is stored in the file named for the UTC date of that entry's own        *)
(* timestamp, and log() only ever appends to a file, never rewriting or    *)
(* truncating entries already stored.                                      *)
(***************************************************************************)
\* the UTC calendar day of a timestamp
UtcDay(timestamp) == timestamp \div 2
\* log() leaves every stored line where it is: a step that is not an edit of the
\* directory from outside changes at most one file, by one line at its end
LogOnlyAppends ==
    [][tampered' = tampered =>
         \A d \in Days :
            \/ files'[d] = files[d]
            \/ /\ Len(files'[d]) = Len(files[d]) + 1
               /\ SubSeq(files'[d], 1, Len(files[d])) = files[d]]_vars
C33_FileOfUtcDay ==
    \A d \in Days : \A n \in 1..Len(files[d]) :
        UtcDay(files[d][n].json.timestamp) = d

(***************************************************************************)
(* C34.  After the deletion of a stored entry, or of a whole day file,     *)
(* that later entries follow, verify_integrity() returns valid = False and *)
(* reports a broken chain at the first entry after the deletion.           *)
(***************************************************************************)
Deleted == tampered # NoPlace /\ tampered[3] \in {"deleted", "deleted_file"}
\* the place (file, line) of the first entry stored after the deleted ones
FirstAfterDeletion ==
    IF tampered[3] = "deleted" /\ tampered[2] <= Len(files[tampered[1]])
    THEN [file |-> tampered[1], line |-> tampered[2]]
    ELSE [file |-> CHOOSE d \in Days :
                      /\ d > tampered[1] /\ files[d] # <<>>
                      /\ \A o \in Days : (o > tampered[1] /\ files[o] # <<>>) => d <= o,
          line |-> 1]
ReportedBroken ==
    \E b \in 1..Len(verify_result.broken_chains) :
        /\ verify_result.broken_chains[b].file = FirstAfterDeletion.file
        /\ verify_result.broken_chains[b].line = FirstAfterDeletion.line
C34_DeletionReported ==
    (verify_result.done /\ Deleted) => (~verify_result.valid /\ ReportedBroken)

\* what does hold: a deletion among the entries of one logger is reported
DeletionReportedOfOneLogger ==
    (verify_result.done /\ Deleted /\ nLoggers = 1)
    => (~verify_result.valid /\ ReportedBroken)

(***************************************************************************)
(* C36.  When the append of an entry raises, the logger's _last_hash is    *)
(* what it was before the call of log(), so that the entry stored next     *)
(* chains to the last entry that is in the file.                           *)
(***************************************************************************)
\* the step in which _write_entry raises inside log()
AppendRaises == nWriteFailed' = nWriteFailed + 1
\* self._last_hash when the thread that holds the lock entered it: the previous_hash its
\* entry was created with
HashBeforeCall == tentry[lock].previous_hash
C36_FailedAppendKeepsLastHash ==
    [][AppendRaises => last_hash' = HashBeforeCall]_vars

\* what does hold: an append that succeeds leaves _last_hash at the hash of the line it
\* stored
StoredAppendSetsLastHash ==
    [][(appended' # appended /\ appended' # <<>>)
         => last_hash' = appended'[Len(appended')].entry_hash]_vars

(***************************************************************************)
(* get_logger() (audit_log.py lines 464-473): the module global _logger is *)
(* tested and assigned without a lock.  Each thread that has the logger    *)
(* writes one entry through it.                                            *)
(***************************************************************************)
\* the entry_hash of the last line of the day's file, as _initialize_log loads it
LastStored(lines) == IF lines = <<>> THEN 0 ELSE lines[Len(lines)].event_id

\* a thread calls get_logger()
GetLoggerCall(t) ==
    /\ gpc[t] = "idle"
    /\ nGetCalls < MaxGetCalls
    /\ nGetCalls' = nGetCalls + 1
    /\ gpc' = [gpc EXCEPT ![t] = "test"]
    /\ UNCHANGED <<global_logger, instance_hash, gnew, gheld, gfile, greturned>>

\* "if _logger is None:"
GetLoggerTest(t) ==
    /\ gpc[t] = "test"
    /\ gpc' = [gpc EXCEPT ![t] = IF global_logger = 0 THEN "construct" ELSE "return"]
    /\ UNCHANGED <<global_logger, instance_hash, gnew, gheld, gfile, greturned, nGetCalls>>

\* "AuditLogger()": __init__ makes a new instance whose _last_hash _initialize_log loads
\* from the day's file
GetLoggerConstruct(t) ==
    /\ gpc[t] = "construct"
    /\ instance_hash' = Append(instance_hash, LastStored(gfile))
    /\ gnew' = [gnew EXCEPT ![t] = Len(instance_hash) + 1]
    /\ gpc' = [gpc EXCEPT ![t] = "store"]
    /\ UNCHANGED <<global_logger, gheld, gfile, greturned, nGetCalls>>

\* "_logger = ...": the assignment of the constructed instance to the global
GetLoggerStore(t) ==
    /\ gpc[t] = "store"
    /\ global_logger' = gnew[t]
    /\ gpc' = [gpc EXCEPT ![t] = "return"]
    /\ UNCHANGED <<instance_hash, gnew, gheld, gfile, greturned, nGetCalls>>

\* "return _logger": the global is read again
GetLoggerReturn(t) ==
    /\ gpc[t] = "return"
    /\ gheld' = [gheld EXCEPT ![t] = global_logger]
    /\ greturned' = greturned \cup {global_logger}
    /\ gpc' = [gpc EXCEPT ![t] = "holding"]
    /\ UNCHANGED <<global_logger, instance_hash, gnew, gfile, nGetCalls>>

\* the caller logs one entry through the instance it was given: log() inside that
\* instance's lock, with previous_hash = that instance's _last_hash
GetLoggerLog(t) ==
    /\ gpc[t] = "holding"
    /\ LET id == Len(gfile) + 1
       IN /\ gfile' = Append(gfile, [event_id |-> id,
                                     previous_hash |-> instance_hash[gheld[t]]])
          /\ instance_hash' = [instance_hash EXCEPT ![gheld[t]] = id]
    /\ gpc' = [gpc EXCEPT ![t] = "idle"]
    /\ gnew' = [gnew EXCEPT ![t] = 0]
    /\ UNCHANGED <<global_logger, gheld, greturned, nGetCalls>>

notGetLoggerVars == <<recoveryVars, auditVars, frontVars, factoryVars, parserVars, progressVars, monitorVars, scanVars, batchVars, startVars>>
GetLoggerNext ==
    \/ (\E t \in Threads : GetLoggerCall(t)) /\ UNCHANGED notGetLoggerVars
    \/ (\E t \in Threads : GetLoggerTest(t)) /\ UNCHANGED notGetLoggerVars
    \/ (\E t \in Threads : GetLoggerConstruct(t)) /\ UNCHANGED notGetLoggerVars
    \/ (\E t \in Threads : GetLoggerStore(t)) /\ UNCHANGED notGetLoggerVars
    \/ (\E t \in Threads : GetLoggerReturn(t)) /\ UNCHANGED notGetLoggerVars
    \/ (\E t \in Threads : GetLoggerLog(t)) /\ UNCHANGED notGetLoggerVars

GetLoggerSpec == Init /\ [][GetLoggerNext]_vars

(***************************************************************************)
(* C37.  get_logger() gives the same one AuditLogger instance to every     *)
(* caller of the process, also when the first calls come from several      *)
(* threads at once, so that the entries of the process are one chain with  *)
(* one _last_hash.                                                         *)
(***************************************************************************)
\* entry k's previous_hash is the hash of the entry stored before it
OneChain(lines) ==
    \A k \in 1..Len(lines) : lines[k].previous_hash = k - 1
C37_OneLoggerPerProcess ==
    /\ Cardinality(greturned) <= 1
    /\ OneChain(gfile)

\* what does hold: as long as one instance only has been constructed, every caller is
\* given it and the entries are one chain
CallsInTurnShareLogger ==
    (Len(instance_hash) <= 1) => (Cardinality(greturned) <= 1 /\ OneChain(gfile))

(***************************************************************************)
(* C35.  A cancel() that another thread issues at any moment after         *)
(* recover() has begun running (is_running() is true) is never lost, also  *)
(* when it lands during recover()'s own start-up reset of the flag:        *)
(* recover() sees it before it verifies the next candidate, and stops.     *)
(***************************************************************************)
C35_Step ==
    \* the flag raised during the start-up is still raised after the start-up
    /\ (pc = "reset" /\ startup_cancel) => cancel_flag'
    \* and a raised flag lets no further verification start
    /\ (cancel_flag /\ InCall /\ pc # "reset") => VerifStarted' = VerifStarted
C35_CancelNeverLost == [][C35_Step]_vars

\* what does hold: a cancel() that lands after the start-up reset stays raised until the
\* call returns
CancelAfterResetKept ==
    [][(cancel_flag /\ InCall /\ pc # "reset") => cancel_flag']_vars

====
